---------------------------- MODULE Spec2Model ----------------------------
(***************************************************************************)
(* Floating version tags action: the version parser (version.ts), the git  *)
(* wrappers (git.ts) and the orchestration run() (index.ts), modelled as a *)
(* state machine over a local and a remote tag namespace.                  *)
(*                                                                         *)
(* Strings that the code parses or concatenates are sequences of           *)
(* one-character strings, so that parsing and formatting are computed.     *)
(* Object ids (the 40 hex characters git prints) are the atoms of Ids.     *)
(***************************************************************************)
EXTENDS Integers, Sequences, FiniteSets, TLC

\* ------------------------------------------------------------------------
\* Bounds of the model
\* ------------------------------------------------------------------------

\* number of runs of the action performed one after the other
MaxRuns == 2

\* largest version number given to parseVersion and createTagName when they
\* are called on their own
MaxNumber == 12

\* writes of another instance during one run
MaxOtherWrites == 1

\* ------------------------------------------------------------------------
\* Strings
\* ------------------------------------------------------------------------

DigitChars == {"0", "1", "2", "3", "4", "5", "6", "7", "8", "9"}

\* line terminators, which "." of a JavaScript regular expression excludes
LineTerminators == {"\n", "\r"}

\* the literal of the regular expression /^refs\/tags\// (version.ts:12)
RefsTagsPrefix == <<"r", "e", "f", "s", "/", "t", "a", "g", "s", "/">>

\* an optional value that is absent (a capture group that did not take
\* part in the match, an omitted argument)
Undefined == <<"undefined">>

NoMinor == -1

StartsWith(s, p) == Len(s) >= Len(p) /\ SubSeq(s, 1, Len(p)) = p

DigitVal(c) ==
    CASE c = "0" -> 0 [] c = "1" -> 1 [] c = "2" -> 2 [] c = "3" -> 3
      [] c = "4" -> 4 [] c = "5" -> 5 [] c = "6" -> 6 [] c = "7" -> 7
      [] c = "8" -> 8 [] c = "9" -> 9

DigitChar(d) ==
    CASE d = 0 -> "0" [] d = 1 -> "1" [] d = 2 -> "2" [] d = 3 -> "3"
      [] d = 4 -> "4" [] d = 5 -> "5" [] d = 6 -> "6" [] d = 7 -> "7"
      [] d = 8 -> "8" [] d = 9 -> "9"

\* parseInt(digits, 10) on a non-empty run of decimal digits
RECURSIVE parseInt(_)
parseInt(ds) ==
    IF ds = <<>> THEN 0
    ELSE 10 * parseInt(SubSeq(ds, 1, Len(ds) - 1)) + DigitVal(ds[Len(ds)])

\* `${n}` for a non-negative integer n
RECURSIVE NumToStr(_)
NumToStr(n) ==
    IF n < 10 THEN <<DigitChar(n)>>
    ELSE NumToStr(n \div 10) \o <<DigitChar(n % 10)>>

\* ------------------------------------------------------------------------
\* version.ts: parseVersion, createTagName
\* ------------------------------------------------------------------------

\* tag.replace(/^refs\/tags\//, '')
StripRefsTags(tag) ==
    IF StartsWith(tag, RefsTagsPrefix)
    THEN SubSeq(tag, Len(RefsTagsPrefix) + 1, Len(tag))
    ELSE tag

\* StripV that drops the first character whatever it is
StripV_always(tagName) ==
    IF Len(tagName) > 0 THEN Tail(tagName) ELSE tagName

\* if (tagName.startsWith('v')) tagName = tagName.substring(1)
StripV(tagName) ==
    IF Len(tagName) > 0 /\ tagName[1] = "v" THEN Tail(tagName) ELSE tagName

\* last index of the greedy run \d+ that starts at i (i - 1 when empty)
DigitsEnd(s, i) ==
    LET js == {j \in i..Len(s) : \A k \in i..j : s[k] \in DigitChars}
    IN  IF js = {} THEN i - 1 ELSE CHOOSE j \in js : \A k \in js : k <= j

\* NotPlusEnd for a prerelease group [^+.]+ that also stops at a dot
NotPlusEnd_stopsAtDot(s, i) ==
    LET js == {j \in i..Len(s) : \A k \in i..j : s[k] \notin {"+", "."}}
    IN  IF js = {} THEN i - 1 ELSE CHOOSE j \in js : \A k \in js : k <= j

\* last index of the greedy run [^+]+ that starts at i (i - 1 when empty)
NotPlusEnd(s, i) ==
    LET js == {j \in i..Len(s) : \A k \in i..j : s[k] # "+"}
    IN  IF js = {} THEN i - 1 ELSE CHOOSE j \in js : \A k \in js : k <= j

NoMatch == [ok |-> FALSE]

\* BuildTail for a pattern without the closing $: what the build group
\* does not take is left over
BuildTail_unanchored(s, k, m) ==
    IF k > Len(s) THEN [m EXCEPT !.ok = TRUE]
    ELSE IF s[k] = "+" /\ k < Len(s)
            /\ \A j \in (k + 1)..Len(s) : s[j] \notin LineTerminators
         THEN [m EXCEPT !.ok = TRUE, !.g5 = SubSeq(s, k + 1, Len(s))]
         ELSE [m EXCEPT !.ok = TRUE]

\* (?:\+(.+))?$ tried at index k, with the prerelease group already decided
BuildTail(s, k, m) ==
    IF k > Len(s) THEN [m EXCEPT !.ok = TRUE]
    ELSE IF s[k] = "+" /\ k < Len(s)
            /\ \A j \in (k + 1)..Len(s) : s[j] \notin LineTerminators
         THEN [m EXCEPT !.ok = TRUE, !.g5 = SubSeq(s, k + 1, Len(s))]
         ELSE NoMatch

\* (?:-([^+]+))?(?:\+(.+))?$ tried at index k, right after the patch digits.
\* The greedy run [^+]+ stops at the end of the string or in front of a "+";
\* a shorter run or a skipped group leaves a character that neither \+ nor $
\* accepts, so backtracking adds no match.
SuffixTail(s, k, m) ==
    IF k <= Len(s) /\ s[k] = "-"
    THEN LET p == NotPlusEnd(s, k + 1)
         IN  IF p < k + 1 THEN NoMatch
             ELSE BuildTail(s, p + 1, [m EXCEPT !.g4 = SubSeq(s, k + 1, p)])
    ELSE BuildTail(s, k, m)

\* (\d+)\.(\d+)\.(\d+)(?:-([^+]+))?(?:\+(.+))?$ tried with its first
\* character at index i; g1..g5 are the capture groups
MatchAt(s, i) ==
    LET a == DigitsEnd(s, i)
    IN  IF a < i \/ a + 1 > Len(s) \/ s[a + 1] # "." THEN NoMatch
        ELSE LET b == DigitsEnd(s, a + 2)
             IN  IF b < a + 2 \/ b + 1 > Len(s) \/ s[b + 1] # "." THEN NoMatch
                 ELSE LET c == DigitsEnd(s, b + 2)
                      IN  IF c < b + 2 THEN NoMatch
                          ELSE SuffixTail(s, c + 1,
                                   [ok |-> FALSE,
                                    g1 |-> SubSeq(s, i, a),
                                    g2 |-> SubSeq(s, a + 2, b),
                                    g3 |-> SubSeq(s, b + 2, c),
                                    g4 |-> Undefined,
                                    g5 |-> Undefined])

\* tagName.match(/^(\d+)\.(\d+)\.(\d+)(?:-([^+]+))?(?:\+(.+))?$/)
StrictMatch(tagName) == MatchAt(tagName, 1)

\* PermissiveMatch that takes the match at the rightmost index
PermissiveMatch_rightmost(tagName) ==
    LET is == {i \in 1..Len(tagName) : MatchAt(tagName, i).ok}
    IN  IF is = {} THEN NoMatch
        ELSE MatchAt(tagName, CHOOSE i \in is : \A k \in is : i >= k)

\* tagName.match(/(\d+)\.(\d+)\.(\d+)(?:-([^+]+))?(?:\+(.+))?$/):
\* the match at the leftmost index that has one
PermissiveMatch(tagName) ==
    LET is == {i \in 1..Len(tagName) : MatchAt(tagName, i).ok}
    IN  IF is = {} THEN NoMatch
        ELSE MatchAt(tagName, CHOOSE i \in is : \A k \in is : i <= k)

\* the thrown Error of parseVersion
ParseError == [ok |-> FALSE, error |-> "Invalid semantic version format"]

\* parseVersion that reports the tag name it matched as the original
parseVersion_originalStripped(tag) ==
    LET tagName == StripV(StripRefsTags(tag))
        strict  == StrictMatch(tagName)
        match   == IF strict.ok THEN strict ELSE PermissiveMatch(tagName)
    IN  IF ~match.ok THEN ParseError
        ELSE [ok           |-> TRUE,
              major        |-> parseInt(match.g1),
              minor        |-> parseInt(match.g2),
              patch        |-> parseInt(match.g3),
              original     |-> tagName,
              isPrerelease |-> (match.g4 # Undefined /\ match.g4 # <<>>),
              prerelease   |-> match.g4,
              build        |-> match.g5]

parseVersion(tag) ==
    LET tagName == StripV(StripRefsTags(tag))
        strict  == StrictMatch(tagName)
        match   == IF strict.ok THEN strict ELSE PermissiveMatch(tagName)
    IN  IF ~match.ok THEN ParseError
        ELSE [ok           |-> TRUE,
              major        |-> parseInt(match.g1),
              minor        |-> parseInt(match.g2),
              patch        |-> parseInt(match.g3),
              original     |-> tag,
              isPrerelease |-> (match.g4 # Undefined /\ match.g4 # <<>>),
              prerelease   |-> match.g4,
              build        |-> match.g5]

\* createTagName that tests the minor number for truthiness: if (minor)
createTagName_truthyMinor(prefix, major, minor) ==
    IF minor # NoMinor /\ minor # 0
    THEN prefix \o NumToStr(major) \o <<".">> \o NumToStr(minor)
    ELSE prefix \o NumToStr(major)

createTagName(prefix, major, minor) ==
    IF minor # NoMinor
    THEN prefix \o NumToStr(major) \o <<".">> \o NumToStr(minor)
    ELSE prefix \o NumToStr(major)

\* ------------------------------------------------------------------------
\* The repository: objects, refs and the git commands the action invokes
\* ------------------------------------------------------------------------

\* object ids: t1 is an annotated tag object on commit c1, c2 is the commit
\* HEAD is on
Ids == {"c1", "c2", "t1"}

HeadCommit == "c2"

\* the objects that are commits
Commits == {"c1", "c2"}

\* git rev-parse <id>^{commit}: the commit an object leads to
Peel(id) == IF id = "t1" THEN "c1" ELSE id

\* no commit id resolved yet
NoSha == ""

\* ShaLength characters that name no object of the repository (git
\* rev-parse prints an argument that is an option or a path as it stands)
NotAnId == "zz"

\* length of the identifier git prints for an object of a SHA-1 repository
ShaLength == 40

\* length of what git prints when it is not a SHA-1 identifier (the
\* identifier of a SHA-256 repository)
OtherLength == 64

Str_HEAD == <<"H", "E", "A", "D">>
Str_nope == <<"n", "o", "p", "e">>
Str_v == <<"v">>
Str_release == <<"r", "e", "l", "e", "a", "s", "e", "-">>

Tag_v123 == <<"v", "1", ".", "2", ".", "3">>
Tag_v123rc == <<"v", "1", ".", "2", ".", "3", "-", "r", "c">>
Tag_v12 == <<"v", "1", ".", "2">>
Tag_v1 == <<"v", "1">>
Tag_release510 == Str_release \o <<"5", ".", "1", ".", "0">>
Tag_refs_v123 == RefsTagsPrefix \o Tag_v123

\* the release tags of the repository and the object each points at
\* (v1.2.3 is annotated, as in the end-to-end test; the others lightweight)
SourceTags ==
    (Tag_v123 :> "t1") @@ (Tag_v123rc :> "c1") @@ (Tag_v12 :> "c1")
        @@ (Tag_release510 :> "c1")

\* a tag namespace with tag name set to id
SetTag(tags, name, id) ==
    [n \in DOMAIN tags \cup {name} |-> IF n = name THEN id ELSE tags[n]]

\* git rev-parse <ref> in the local repository: exit code and trimmed stdout
GitRevParse(ref, tags) ==
    LET short == StripRefsTags(ref)
    IN  IF StartsWith(ref, RefsTagsPrefix)
        THEN IF short \in DOMAIN tags
             THEN [exit |-> 0, out |-> tags[short]]
             ELSE [exit |-> 128, out |-> NoSha]
        ELSE IF ref = Str_HEAD THEN [exit |-> 0, out |-> HeadCommit]
        ELSE IF ref \in DOMAIN tags THEN [exit |-> 0, out |-> tags[ref]]
        ELSE [exit |-> 128, out |-> NoSha]

\* git tag [-f] <name> <sha>: without -f an existing tag is an error
GitTag(tags, name, sha, force) ==
    IF sha \notin Ids THEN [exit |-> 128, tags |-> tags]
    ELSE IF ~force /\ name \in DOMAIN tags THEN [exit |-> 128, tags |-> tags]
    ELSE [exit |-> 0, tags |-> SetTag(tags, name, sha)]

\* GitPush for git push origin --tags: besides the named tag, every local
\* tag the remote lacks is created there
GitPush_allTags(local, remote, name, force) ==
    LET all == [n \in DOMAIN remote \cup DOMAIN local |->
                   IF n \in DOMAIN remote THEN remote[n] ELSE local[n]]
    IN  IF name \notin DOMAIN local THEN [exit |-> 1, remote |-> remote]
        ELSE IF name \notin DOMAIN remote \/ remote[name] = local[name]
                \/ force
             THEN [exit |-> 0, remote |-> SetTag(all, name, local[name])]
             ELSE [exit |-> 1, remote |-> remote]

\* git push origin <name> [--force]: the remote creates a missing tag,
\* accepts an unchanged one, and moves an existing tag only when forced
GitPush(local, remote, name, force) ==
    IF name \notin DOMAIN local THEN [exit |-> 1, remote |-> remote]
    ELSE IF name \notin DOMAIN remote \/ remote[name] = local[name] \/ force
         THEN [exit |-> 0, remote |-> SetTag(remote, name, local[name])]
         ELSE [exit |-> 1, remote |-> remote]

\* ------------------------------------------------------------------------
\* State
\* ------------------------------------------------------------------------

VARIABLES
    rawInputs,   \* the INPUT_* values the runner hands to core.getInput
    inputs,      \* the ActionInputs struct of run() (index.ts:28)
    localTags,   \* refs/tags of the working repository: name -> object id
    remoteTags,  \* refs/tags of origin: name -> object id
    pc,          \* the statement of run() that executes next
    phase,       \* which floating tag run() is working on: major or minor
    versionInfo, \* result of parseVersion(tag)
    commitSha,   \* result of getCommitSha(refTag)
    exists,      \* result of tagExists inside createOrUpdateTag
    tagResult,   \* majorTagResult / minorTagResult of the current phase
    results,     \* the results array of the final summary
    outputs,     \* core.setOutput calls: set of <<name, value>>
    failed,      \* core.setFailed calls: sequence of messages
    warnings,    \* core.warning calls about a failed verification
    summary,     \* TRUE once the success summary has been reported
    gitLog,      \* git commands run() has invoked, in order
    runNo,       \* number of the current run
    pre,         \* tag namespaces at the start of the current run
    first,       \* outcome of the previous run
    call,        \* the last direct call of a function of version.ts
    otherWrites  \* tags written by another instance while run() executes

vars == <<otherWrites, call, rawInputs, inputs, localTags, remoteTags, pc, phase, versionInfo,
          commitSha, exists, tagResult, results, outputs, failed, warnings,
          summary, gitLog, runNo, pre, first>>

NoInputs ==
    [tag |-> <<>>, refTag |-> <<>>, prefix |-> <<>>, updateMinor |-> FALSE,
     ignorePrerelease |-> FALSE, verbose |-> FALSE]

NoVersion == [ok |-> FALSE]

NoResult ==
    [tagName |-> <<>>, commitSha |-> NoSha, created |-> FALSE,
     updated |-> FALSE]

NoFirst == [done |-> FALSE]

NoCall == [fn |-> "none"]

\* values of the tag input: missing, a release, a prerelease, a tag that is
\* no version, a tag with a custom prefix, a fully qualified ref
TagInputs ==
    {<<>>, Tag_v123, Tag_v123rc, Tag_v12, Tag_release510, Tag_refs_v123}

\* values of the refTag input: missing, a ref on another commit, a ref
\* that does not exist, the name of a floating tag
RefTagInputs == {<<>>, Str_HEAD, Str_nope, Tag_v1}

PrefixInputs == {<<>>, Str_release}

\* values of a boolean input: the two YAML booleans and a value that is none
BooleanInputs == {"true", "false", "yes"}

\* the state a floating tag can start in: absent, or on one of the commits
TagStates == {NoSha, "c1", "c2"}

\* the floating tags of release 1.2 under both prefixes, each in its state
FloatingTags(major, minor) ==
    LET names == [n \in {createTagName(Str_v, 1, NoMinor),
                         createTagName(Str_release, 1, NoMinor)} |-> major]
              @@ [n \in {createTagName(Str_v, 1, 2),
                         createTagName(Str_release, 1, 2)} |-> minor]
    IN  [n \in {m \in DOMAIN names : names[m] # NoSha} |-> names[n]]

\* the local minor tag starts absent or where the remote one is
MinorStates == {<<NoSha, NoSha>>, <<NoSha, "c1">>, <<"c1", "c1">>}

\* the inputs, the repository and run() before its first statement
InitRun ==
    /\ rawInputs \in [tag : TagInputs, refTag : RefTagInputs,
                      prefix : PrefixInputs, updateMinor : BooleanInputs,
                      ignorePrerelease : BooleanInputs,
                      verbose : BooleanInputs]
    /\ \E ml \in TagStates, mr \in TagStates, mn \in MinorStates :
          /\ localTags = FloatingTags(ml, mn[1]) @@ SourceTags
          /\ remoteTags = FloatingTags(mr, mn[2]) @@ SourceTags
    /\ inputs = NoInputs
    /\ pc = "inputs"
    /\ phase = "major"
    /\ versionInfo = NoVersion
    /\ commitSha = NoSha
    /\ exists = FALSE
    /\ tagResult = NoResult
    /\ results = <<>>
    /\ outputs = {}
    /\ failed = <<>>
    /\ warnings = <<>>
    /\ summary = FALSE
    /\ gitLog = <<>>
    /\ runNo = 1
    /\ pre = [local |-> localTags, remote |-> remoteTags]
    /\ first = NoFirst
    /\ otherWrites = <<>>

Init ==
    /\ InitRun
    /\ call = NoCall

\* ------------------------------------------------------------------------
\* git.ts: the wrappers, as functions of the repository and of whether the
\* environment lets the command run (outcome "env": the process cannot be
\* spawned, the network or the remote fails; "badlen": git prints something
\* that is not ShaLength characters long; "nothex": git prints ShaLength
\* characters that are no identifier)
\* ------------------------------------------------------------------------

Outcomes == {"ok", "env"}

RevParseOutcomes == {"ok", "env", "badlen", "nothex"}

ResolveError == [ok |-> FALSE, error |-> "Failed to resolve commit SHA"]

\* getCommitSha without the test of the length of what git printed
getCommitSha_noLengthCheck(ref, tags, outcome) ==
    LET r == GitRevParse(ref, tags)
    IN  IF outcome = "env" \/ r.exit # 0 THEN ResolveError
        ELSE IF outcome = "nothex" THEN [ok |-> TRUE, sha |-> NotAnId]
        ELSE [ok |-> TRUE, sha |-> r.out]

getCommitSha(ref, tags, outcome) ==
    LET r   == GitRevParse(ref, tags)
        len == IF r.out = NoSha THEN 0
               ELSE IF outcome = "badlen" THEN OtherLength ELSE ShaLength
    IN  IF outcome = "env" \/ r.exit # 0 THEN ResolveError
        ELSE IF r.out = NoSha \/ len # ShaLength THEN ResolveError
        ELSE IF outcome = "nothex" THEN [ok |-> TRUE, sha |-> NotAnId]
        ELSE [ok |-> TRUE, sha |-> r.out]

\* tagExists probing a ref namespace that holds no tags
tagExists_never(tagName, tags, outcome) == FALSE

\* exec with ignoreReturnCode: a non-zero exit is the answer "no"; the catch
\* turns an exec that throws into the answer "no" as well
tagExists(tagName, tags, outcome) ==
    IF outcome = "env" THEN FALSE
    ELSE GitRevParse(RefsTagsPrefix \o tagName, tags).exit = 0

verifyTag(tagName, expectedSha, tags, outcome) ==
    LET r == getCommitSha(RefsTagsPrefix \o tagName, tags, outcome)
    IN  IF r.ok THEN r.sha = expectedSha ELSE FALSE

\* ------------------------------------------------------------------------
\* index.ts: run(), one action per awaited step
\* ------------------------------------------------------------------------

\* an entry of gitLog: the command, whether it succeeded, and what the
\* environment did to it (fault: anything but letting it run as asked)
Cmd(op, name, force, ok, outcome) ==
    [op |-> op, name |-> name, force |-> force, ok |-> ok,
     fault |-> outcome # "ok", outcome |-> outcome]

\* Catch that logs the error without calling core.setFailed
Catch_silent(message) ==
    /\ pc' = "done"
    /\ UNCHANGED failed

\* the catch block of run(): the error is reported through core.setFailed
Catch(message) ==
    /\ failed' = Append(failed, message)
    /\ pc' = "done"

\* TagName with the patch number where the minor number belongs
TagName_usesPatch ==
    createTagName(inputs.prefix, versionInfo.major,
                  IF phase = "minor" THEN versionInfo.patch ELSE NoMinor)

\* name of the floating tag of the current phase
TagName ==
    createTagName(inputs.prefix, versionInfo.major,
                  IF phase = "minor" THEN versionInfo.minor ELSE NoMinor)

\* DefaultRefTag that resolves the tag input whatever refTag says
DefaultRefTag_ignoresInput(refTagInput, tag) == tag

\* index.ts:26: const refTag = refTagInput || tag
DefaultRefTag(refTagInput, tag) ==
    IF refTagInput # <<>> THEN refTagInput ELSE tag

\* index.ts:14: core.getInput("prefix") || "v"
DefaultPrefix(prefixInput) ==
    IF prefixInput # <<>> THEN prefixInput ELSE Str_v

\* GateTriggers looking at the build metadata instead of the prerelease
GateTriggers_onBuild(v, ignorePrerelease) ==
    v.build # Undefined /\ ignorePrerelease

\* index.ts:55: the condition of the prerelease gate
GateTriggers(v, ignorePrerelease) == v.isPrerelease /\ ignorePrerelease

\* TagOperationResult with the two flags exchanged
TagOperationResult_swapped(tagName, sha, existed) ==
    [tagName |-> tagName, commitSha |-> sha, created |-> existed,
     updated |-> ~existed]

\* git.ts:89-94 and 106-111: the TagOperationResult of createOrUpdateTag
TagOperationResult(tagName, sha, existed) ==
    [tagName |-> tagName, commitSha |-> sha, created |-> ~existed,
     updated |-> existed]

\* PushForce of a run that pushes every floating tag with --force
PushForce_always(result) == TRUE

\* index.ts:83 and 107: the force argument of pushTag
PushForce(result) == result.updated

\* ContinueWithMinor without the test of updateMinor
ContinueWithMinor_always(ph, updateMinor) == ph = "major"

\* index.ts:100: whether run() goes on to the minor tag
ContinueWithMinor(ph, updateMinor) == ph = "major" /\ updateMinor

\* core.getBooleanInput: the value, when it is a YAML boolean
IsBoolean(raw) == raw \in {"true", "false"}

getBooleanInput(raw) == raw = "true"

\* index.ts:12-48. getInput("tag", {required: true}) throws on an empty
\* value, getBooleanInput throws on a value that is no YAML boolean.
ReadInputs ==
    /\ pc = "inputs"
    /\    IF rawInputs.tag = <<>>
          THEN /\ Catch("Input required and not supplied: tag")
               /\ UNCHANGED inputs
          ELSE IF ~(/\ IsBoolean(rawInputs.updateMinor)
                    /\ IsBoolean(rawInputs.ignorePrerelease)
                    /\ IsBoolean(rawInputs.verbose))
          THEN /\ Catch("Input does not meet YAML 1.2 Core Schema")
               /\ UNCHANGED inputs
          ELSE /\ inputs' =
                    [tag    |-> rawInputs.tag,
                     refTag |-> DefaultRefTag(rawInputs.refTag, rawInputs.tag),
                     prefix |-> DefaultPrefix(rawInputs.prefix),
                     updateMinor      |->
                         getBooleanInput(rawInputs.updateMinor),
                     ignorePrerelease |->
                         getBooleanInput(rawInputs.ignorePrerelease),
                     verbose          |->
                         getBooleanInput(rawInputs.verbose)]
               /\ pc' = "parse"
               /\ UNCHANGED failed
    /\ UNCHANGED <<otherWrites, call, rawInputs, localTags, remoteTags, phase, versionInfo,
                   commitSha, exists, tagResult, results, outputs, warnings,
                   summary, gitLog, runNo, pre, first>>

\* ParseTag that warns about a tag it cannot parse and goes on with 0.0.0
ParseTag_fallback ==
    /\ pc = "parse"
    /\ LET v == parseVersion(inputs.tag)
       IN  versionInfo' =
               IF v.ok THEN v
               ELSE [ok |-> TRUE, major |-> 0, minor |-> 0, patch |-> 0,
                     original |-> inputs.tag, isPrerelease |-> FALSE,
                     prerelease |-> Undefined, build |-> Undefined]
    /\ pc' = "gate"
    /\ UNCHANGED <<otherWrites, call, rawInputs, inputs, localTags, remoteTags, phase, commitSha,
                   exists, tagResult, results, outputs, warnings, summary,
                   gitLog, runNo, pre, first, failed>>

\* ParseTag that accepts only a tag that starts with the configured prefix
ParseTag_requiresPrefix ==
    /\ pc = "parse"
    /\ LET v == IF StartsWith(inputs.tag, inputs.prefix)
                THEN parseVersion(inputs.tag) ELSE ParseError
       IN  IF v.ok
           THEN /\ versionInfo' = v
                /\ pc' = "gate"
                /\ UNCHANGED failed
           ELSE /\ Catch(v.error)
                /\ UNCHANGED versionInfo
    /\ UNCHANGED <<otherWrites, call, rawInputs, inputs, localTags, remoteTags, phase, commitSha,
                   exists, tagResult, results, outputs, warnings, summary,
                   gitLog, runNo, pre, first>>

\* index.ts:52
ParseTag ==
    /\ pc = "parse"
    /\ LET v == parseVersion(inputs.tag)
       IN  IF v.ok
           THEN /\ versionInfo' = v
                /\ pc' = "gate"
                /\ UNCHANGED failed
           ELSE /\ Catch(v.error)
                /\ UNCHANGED versionInfo
    /\ UNCHANGED <<otherWrites, call, rawInputs, inputs, localTags, remoteTags, phase, commitSha,
                   exists, tagResult, results, outputs, warnings, summary,
                   gitLog, runNo, pre, first>>

\* index.ts:55-63
PrereleaseGate ==
    /\ pc = "gate"
    /\ IF GateTriggers(versionInfo, inputs.ignorePrerelease)
       THEN /\ failed' = Append(failed, "Prerelease versions are ignored")
            /\ pc' = "done"
       ELSE /\ pc' = "resolve"
            /\ UNCHANGED failed
    /\ UNCHANGED <<otherWrites, call, rawInputs, inputs, localTags, remoteTags, phase,
                   versionInfo, commitSha, exists, tagResult, results,
                   outputs, warnings, summary, gitLog, runNo, pre, first>>

\* index.ts:66
ResolveRefTag ==
    /\ pc = "resolve"
    /\ \E outcome \in RevParseOutcomes :
          LET r == getCommitSha(inputs.refTag, localTags, outcome)
          IN  /\ gitLog' = Append(gitLog, Cmd("rev-parse", inputs.refTag,
                                              FALSE, r.ok, outcome))
              /\ IF r.ok
                 THEN /\ commitSha' = r.sha
                      /\ phase' = "major"
                      /\ pc' = "probe"
                      /\ UNCHANGED failed
                 ELSE /\ Catch(r.error)
                      /\ UNCHANGED <<commitSha, phase>>
    /\ UNCHANGED <<otherWrites, call, rawInputs, inputs, localTags, remoteTags, versionInfo,
                   exists, tagResult, results, outputs, warnings, summary,
                   runNo, pre, first>>

\* git.ts:76, the probe of createOrUpdateTag
TagExists ==
    /\ pc = "probe"
    /\ \E outcome \in Outcomes :
          /\ exists' = tagExists(TagName, localTags, outcome)
          /\ gitLog' = Append(gitLog, Cmd("probe", TagName, FALSE,
                                          outcome = "ok", outcome))
    /\ pc' = "tag"
    /\ UNCHANGED <<otherWrites, call, rawInputs, inputs, localTags, remoteTags, phase,
                   versionInfo, commitSha, tagResult, results, outputs,
                   failed, warnings, summary, runNo, pre, first>>

\* CreateOrUpdateTag of a run that resolves refTag again for each tag
CreateOrUpdateTag_resolvesAgain ==
    /\ pc = "tag"
    /\ \E outcome \in Outcomes :
          LET again == getCommitSha(inputs.refTag, localTags, "ok")
              sha   == IF again.ok THEN again.sha ELSE commitSha
              r     == GitTag(localTags, TagName, sha, exists)
              ok    == outcome = "ok" /\ r.exit = 0
          IN  /\ gitLog' = gitLog \o
                     <<Cmd("rev-parse", inputs.refTag, FALSE, again.ok, "ok"),
                       Cmd("tag", TagName, exists, ok, outcome)>>
              /\ IF ok
                 THEN /\ localTags' = r.tags
                      /\ tagResult' = TagOperationResult(TagName, sha, exists)
                      /\ pc' = "push"
                      /\ UNCHANGED failed
                 ELSE /\ Catch("The process 'git' failed")
                      /\ UNCHANGED <<localTags, tagResult>>
    /\ UNCHANGED <<otherWrites, call, rawInputs, inputs, remoteTags, phase,
                   versionInfo, commitSha, exists, results, outputs, warnings,
                   summary, runNo, pre, first>>

\* git.ts:78-112, the git tag command of createOrUpdateTag and its result
CreateOrUpdateTag ==
    /\ pc = "tag"
    /\ \E outcome \in Outcomes :
          LET r  == GitTag(localTags, TagName, commitSha, exists)
              ok == outcome = "ok" /\ r.exit = 0
          IN  /\ gitLog' = Append(gitLog, Cmd("tag", TagName, exists, ok,
                                              outcome))
              /\ IF ok
                 THEN /\ localTags' = r.tags
                      /\ tagResult' =
                             TagOperationResult(TagName, commitSha, exists)
                      /\ pc' = "push"
                      /\ UNCHANGED failed
                 ELSE /\ Catch("The process 'git' failed")
                      /\ UNCHANGED <<localTags, tagResult>>
    /\ UNCHANGED <<otherWrites, call, rawInputs, inputs, remoteTags, phase, versionInfo,
                   commitSha, exists, results, outputs, warnings, summary,
                   runNo, pre, first>>

\* PushTag of a run that goes on after a push that failed
PushTag_continues ==
    /\ pc = "push"
    /\ \E outcome \in Outcomes :
          LET force == PushForce(tagResult)
              r     == GitPush(localTags, remoteTags, TagName, force)
              ok    == outcome = "ok" /\ r.exit = 0
          IN  /\ gitLog' = Append(gitLog, Cmd("push", TagName, force, ok,
                                              outcome))
              /\ remoteTags' = IF ok THEN r.remote ELSE remoteTags
    /\ pc' = IF inputs.verbose THEN "verify" ELSE "output"
    /\ UNCHANGED <<otherWrites, call, rawInputs, inputs, localTags, phase, versionInfo,
                   commitSha, exists, tagResult, results, outputs, warnings,
                   summary, runNo, pre, first, failed>>

\* PushTag that puts the local tag back where it was when the push fails
PushTag_rollback ==
    /\ pc = "push"
    /\ \E outcome \in Outcomes :
          LET force == PushForce(tagResult)
              r     == GitPush(localTags, remoteTags, TagName, force)
              ok    == outcome = "ok" /\ r.exit = 0
          IN  /\ gitLog' = Append(gitLog, Cmd("push", TagName, force, ok,
                                              outcome))
              /\ IF ok
                 THEN /\ remoteTags' = r.remote
                      /\ pc' = IF inputs.verbose THEN "verify" ELSE "output"
                      /\ UNCHANGED <<failed, localTags>>
                 ELSE /\ Catch("Failed to push tag")
                      /\ localTags' =
                             IF TagName \in DOMAIN pre.local
                             THEN SetTag(localTags, TagName,
                                         pre.local[TagName])
                             ELSE [n \in DOMAIN localTags \ {TagName} |->
                                      localTags[n]]
                      /\ UNCHANGED remoteTags
    /\ UNCHANGED <<otherWrites, call, rawInputs, inputs, phase, versionInfo,
                   commitSha, exists, tagResult, results, outputs, warnings,
                   summary, runNo, pre, first>>

\* index.ts:83 and 107 with git.ts:118-140
PushTag ==
    /\ pc = "push"
    /\ \E outcome \in Outcomes :
          LET force == PushForce(tagResult)
              r     == GitPush(localTags, remoteTags, TagName, force)
              ok    == outcome = "ok" /\ r.exit = 0
          IN  /\ gitLog' = Append(gitLog, Cmd("push", TagName, force, ok,
                                              outcome))
              /\ IF ok
                 THEN /\ remoteTags' = r.remote
                      /\ pc' = IF inputs.verbose THEN "verify" ELSE "output"
                      /\ UNCHANGED failed
                 ELSE /\ Catch("Failed to push tag")
                      /\ UNCHANGED remoteTags
    /\ UNCHANGED <<otherWrites, call, rawInputs, inputs, localTags, phase, versionInfo,
                   commitSha, exists, tagResult, results, outputs, warnings,
                   summary, runNo, pre, first>>

\* VerifyTag that throws when the verification fails
VerifyTag_fatal ==
    /\ pc = "verify"
    /\ \E outcome \in RevParseOutcomes :
          LET verified == verifyTag(TagName, commitSha, localTags, outcome)
          IN  /\ gitLog' = Append(gitLog, Cmd("verify", TagName, FALSE,
                                              verified, outcome))
              /\ IF verified
                 THEN /\ pc' = "output"
                      /\ UNCHANGED failed
                 ELSE Catch("Tag verification failed")
    /\ UNCHANGED <<otherWrites, call, rawInputs, inputs, localTags, remoteTags, phase,
                   versionInfo, commitSha, exists, tagResult, results,
                   outputs, warnings, summary, runNo, pre, first>>

\* index.ts:86-91 and 110-115 with git.ts:145-158
VerifyTag ==
    /\ pc = "verify"
    /\ \E outcome \in RevParseOutcomes :
          LET verified == verifyTag(TagName, commitSha, localTags, outcome)
          IN  /\ gitLog' = Append(gitLog, Cmd("verify", TagName, FALSE,
                                              verified, outcome))
              /\ warnings' = IF verified THEN warnings
                             ELSE Append(warnings, TagName)
    /\ pc' = "output"
    /\ UNCHANGED <<otherWrites, call, rawInputs, inputs, localTags, remoteTags, phase,
                   versionInfo, commitSha, exists, tagResult, results,
                   outputs, failed, summary, runNo, pre, first>>

\* index.ts:94-100 and 118-120: record the output and the summary entry,
\* then go on to the minor tag when updateMinor asks for it
SetOutput ==
    /\ pc = "output"
    /\ outputs' = outputs \cup
           {<<IF phase = "major" THEN "majorTag" ELSE "minorTag", TagName>>}
    /\ results' = Append(results, [tag     |-> TagName,
                                   created |-> tagResult.created,
                                   updated |-> tagResult.updated])
    /\ IF ContinueWithMinor(phase, inputs.updateMinor)
       THEN /\ phase' = "minor"
            /\ pc' = "probe"
       ELSE /\ pc' = "summary"
            /\ UNCHANGED phase
    /\ UNCHANGED <<otherWrites, call, rawInputs, inputs, localTags, remoteTags, versionInfo,
                   commitSha, exists, tagResult, failed, warnings, summary,
                   gitLog, runNo, pre, first>>

\* index.ts:122-132
Summary ==
    /\ pc = "summary"
    /\ summary' = TRUE
    /\ pc' = "done"
    /\ UNCHANGED <<otherWrites, call, rawInputs, inputs, localTags, remoteTags, phase,
                   versionInfo, commitSha, exists, tagResult, results,
                   outputs, failed, warnings, gitLog, runNo, pre, first>>

\* the workflow runs the action again with the same inputs, after a run
\* that completed
Rerun ==
    /\ pc = "done"
    /\ runNo < MaxRuns
    /\ summary
    /\ runNo' = runNo + 1
    /\ first' = [done |-> TRUE, local |-> localTags, remote |-> remoteTags,
                 results |-> results, outputs |-> outputs]
    /\ pre' = [local |-> localTags, remote |-> remoteTags]
    /\ inputs' = NoInputs
    /\ pc' = "inputs"
    /\ phase' = "major"
    /\ versionInfo' = NoVersion
    /\ commitSha' = NoSha
    /\ exists' = FALSE
    /\ tagResult' = NoResult
    /\ results' = <<>>
    /\ outputs' = {}
    /\ failed' = <<>>
    /\ warnings' = <<>>
    /\ summary' = FALSE
    /\ gitLog' = <<>>
    /\ UNCHANGED <<otherWrites, call, rawInputs, localTags, remoteTags>>

Next ==
    \/ ReadInputs
    \/ ParseTag
    \/ PrereleaseGate
    \/ ResolveRefTag
    \/ TagExists
    \/ CreateOrUpdateTag
    \/ PushTag
    \/ VerifyTag
    \/ SetOutput
    \/ Summary
    \/ Rerun

Spec == Init /\ [][Next]_vars

\* ------------------------------------------------------------------------
\* Two runs on the same repository that differ in one input
\* ------------------------------------------------------------------------

\* the pairs start from the inputs run() accepts and from the repositories
\* in which each floating tag is absent or on the older commit
InitTwin ==
    /\ Init
    /\ rawInputs.tag \in {Tag_v123, Tag_v123rc, Tag_v12}
    /\ rawInputs.refTag \in {<<>>, Str_HEAD}
    /\ IsBoolean(rawInputs.updateMinor)
    /\ IsBoolean(rawInputs.ignorePrerelease)
    /\ IsBoolean(rawInputs.verbose)
    /\ \A n \in DOMAIN localTags : localTags[n] # HeadCommit
    /\ \A n \in DOMAIN remoteTags : remoteTags[n] # HeadCommit

\* the inputs whose influence is examined
VariedInputs == {"verbose", "prefix"}

\* the other values the input can take
OtherValues(field, value) ==
    IF field = "verbose"
    THEN {b \in BooleanInputs : IsBoolean(b) /\ IsBoolean(value)} \ {value}
    ELSE PrefixInputs \ {value}

\* the workflow is run a second time on the repository as it was before the
\* first run, with one input changed
Twin ==
    /\ pc = "done"
    /\ runNo = 1
    /\ \E field \in VariedInputs :
          \E value \in OtherValues(field, rawInputs[field]) :
             /\ rawInputs' = [rawInputs EXCEPT ![field] = value]
             /\ first' = [done |-> TRUE, varied |-> field,
                          local |-> localTags, remote |-> remoteTags,
                          results |-> results, outputs |-> outputs,
                          inputs |-> inputs, versionInfo |-> versionInfo,
                          failed |-> failed, summary |-> summary,
                          warnings |-> warnings, gitLog |-> gitLog]
    /\ runNo' = runNo + 1
    /\ localTags' = pre.local
    /\ remoteTags' = pre.remote
    /\ inputs' = NoInputs
    /\ pc' = "inputs"
    /\ phase' = "major"
    /\ versionInfo' = NoVersion
    /\ commitSha' = NoSha
    /\ exists' = FALSE
    /\ tagResult' = NoResult
    /\ results' = <<>>
    /\ outputs' = {}
    /\ failed' = <<>>
    /\ warnings' = <<>>
    /\ summary' = FALSE
    /\ gitLog' = <<>>
    /\ UNCHANGED <<otherWrites, call, pre>>

NextTwin ==
    \/ ReadInputs
    \/ ParseTag
    \/ PrereleaseGate
    \/ ResolveRefTag
    \/ TagExists
    \/ CreateOrUpdateTag
    \/ PushTag
    \/ VerifyTag
    \/ SetOutput
    \/ Summary
    \/ Twin

SpecTwin == InitTwin /\ [][NextTwin]_vars

\* ------------------------------------------------------------------------
\* parseVersion and createTagName called on their own, as the unit tests of
\* version.ts call them
\* ------------------------------------------------------------------------

\* what stands in front of the version numbers of a sample tag
CosmeticLeads ==
    {<<>>, Str_v, RefsTagsPrefix, RefsTagsPrefix \o Str_v}

\* a lead that holds a version of its own
VersionLeads ==
    {<<"7", ".", "8", ".", "9", "-">>,
     <<"x", "-", "7", ".", "8", ".", "9", "-", "v">>}

Leads ==
    CosmeticLeads \cup {Str_release, <<"v", "v">>, <<"V">>} \cup VersionLeads

\* the -prerelease part: absent, empty, or a text without "+"
Pres ==
    {Undefined, <<>>, <<"r", "c">>, <<"b", "-", "1", ".", "x">>,
     <<"a", "\n", "b">>}

\* the +build part: absent, empty, or a text
Builds ==
    {Undefined, <<>>, <<"b">>, <<"b", "+", "c", "-", "5">>,
     <<"b", "\n", "c">>}

\* what is wrong with the version numbers of a sample tag
Damages == {"none", "no-patch", "patch-x", "word"}

\* major numbers of one digit and of two
Majors == {n \in 0..MaxNumber : n <= 1 \/ n >= 10}

Samples ==
    [lead : Leads, major : Majors, minor : {0, 2, MaxNumber},
     patch : {0, 3}, pad : BOOLEAN, pre : Pres, build : Builds,
     damage : Damages]

\* a number written in decimal, with a leading zero when pad asks for one
Decimal(n, pad) == (IF pad THEN <<"0">> ELSE <<>>) \o NumToStr(n)

\* the text of a sample tag
Compose(c) ==
    LET numbers ==
            CASE c.damage = "none" ->
                     Decimal(c.major, c.pad) \o <<".">>
                         \o Decimal(c.minor, c.pad) \o <<".">>
                         \o Decimal(c.patch, c.pad)
              [] c.damage = "no-patch" ->
                     Decimal(c.major, c.pad) \o <<".">>
                         \o Decimal(c.minor, c.pad)
              [] c.damage = "patch-x" ->
                     Decimal(c.major, c.pad) \o <<".">>
                         \o Decimal(c.minor, c.pad) \o <<".", "x">>
              [] c.damage = "word" ->
                     <<"i", "n", "v", "a", "l", "i", "d">>
    IN  c.lead \o numbers
            \o (IF c.pre = Undefined THEN <<>> ELSE <<"-">> \o c.pre)
            \o (IF c.build = Undefined THEN <<>> ELSE <<"+">> \o c.build)

\* prefixes given to createTagName
PrefixSamples == {<<>>, Str_v, Str_release, <<"1", ".">>, <<" ", "/">>}

\* the arguments of the call that is about to be made
ParseVersionCalls ==
    {[fn |-> "parseVersion", returned |-> FALSE, sample |-> c,
      arg |-> Compose(c)] : c \in Samples}

CreateTagNameCalls ==
    [fn : {"createTagName"}, returned : {FALSE}, prefix : PrefixSamples,
     major : 0..MaxNumber, minor : {NoMinor} \cup 0..MaxNumber]

InitFn ==
    /\ InitRun
    /\ rawInputs = [tag |-> <<>>, refTag |-> <<>>, prefix |-> <<>>,
                    updateMinor |-> "false", ignorePrerelease |-> "false",
                    verbose |-> "false"]
    /\ localTags = SourceTags
    /\ remoteTags = SourceTags
    /\ call \in ParseVersionCalls \cup CreateTagNameCalls

\* parseVersion(tag), and parseVersion of the same text behind each of the
\* cosmetic leads
CallParseVersion ==
    /\ call.fn = "parseVersion"
    /\ ~call.returned
    /\ call' = [fn |-> "parseVersion", returned |-> TRUE,
                sample |-> call.sample, arg |-> call.arg,
                value |-> parseVersion(call.arg),
                variants |-> [l \in CosmeticLeads |->
                                 parseVersion(l \o call.arg)]]
    /\ UNCHANGED <<otherWrites, rawInputs, inputs, localTags, remoteTags, pc,
                   phase, versionInfo, commitSha, exists, tagResult, results,
                   outputs, failed, warnings, summary, gitLog, runNo, pre,
                   first>>

\* createTagName(prefix, major) and createTagName(prefix, major, minor)
CallCreateTagName ==
    /\ call.fn = "createTagName"
    /\ ~call.returned
    /\ call' = [fn |-> "createTagName", returned |-> TRUE,
                prefix |-> call.prefix, major |-> call.major,
                minor |-> call.minor,
                value |-> createTagName(call.prefix, call.major, call.minor)]
    /\ UNCHANGED <<otherWrites, rawInputs, inputs, localTags, remoteTags, pc,
                   phase, versionInfo, commitSha, exists, tagResult, results,
                   outputs, failed, warnings, summary, gitLog, runNo, pre,
                   first>>

NextFn ==
    \/ CallParseVersion
    \/ CallCreateTagName

SpecFn == InitFn /\ [][NextFn]_vars

\* ------------------------------------------------------------------------
\* A second instance of the action at work in the same repository
\* ------------------------------------------------------------------------

\* the runs that get as far as the floating tags: a release tag and inputs
\* run() accepts
InitRace ==
    /\ Init
    /\ rawInputs.tag = Tag_v123
    /\ rawInputs.refTag \in {<<>>, Str_HEAD}
    /\ IsBoolean(rawInputs.updateMinor)
    /\ IsBoolean(rawInputs.ignorePrerelease)
    /\ IsBoolean(rawInputs.verbose)

\* git.ts:75-113 executed by the other instance, between the probe and the
\* git tag command of this one: its createOrUpdateTag of the same tag name,
\* for the commit it resolved
OtherCreateOrUpdateTag ==
    /\ pc = "tag"
    /\ Len(otherWrites) < MaxOtherWrites
    /\ \E sha \in Commits :
          LET there == tagExists(TagName, localTags, "ok")
              r     == GitTag(localTags, TagName, sha, there)
          IN  /\ localTags' = r.tags
              /\ otherWrites' =
                     Append(otherWrites,
                            [after |-> Len(gitLog), name |-> TagName,
                             sha |-> sha, created |-> ~there])
    /\ UNCHANGED <<call, rawInputs, inputs, remoteTags, pc, phase,
                   versionInfo, commitSha, exists, tagResult, results,
                   outputs, failed, warnings, summary, gitLog, runNo, pre,
                   first>>

NextRace ==
    \/ ReadInputs
    \/ ParseTag
    \/ PrereleaseGate
    \/ ResolveRefTag
    \/ TagExists
    \/ OtherCreateOrUpdateTag
    \/ CreateOrUpdateTag
    \/ PushTag
    \/ VerifyTag
    \/ SetOutput
    \/ Summary

SpecRace == InitRace /\ [][NextRace]_vars

\* ------------------------------------------------------------------------
\* Vocabulary of the properties
\* ------------------------------------------------------------------------

Done == pc = "done"

Success == summary /\ failed = <<>>

Failure == failed # <<>> /\ ~summary

PointsAt(tags, name, id) == name \in DOMAIN tags /\ tags[name] = id

\* what a tag namespace holds for a name, NoSha when the tag is absent
TagState(tags, name) == IF name \in DOMAIN tags THEN tags[name] ELSE NoSha

\* prefix+major and prefix+major+"."+minor, spelled out
MajorName == inputs.prefix \o NumToStr(versionInfo.major)

MinorName ==
    inputs.prefix \o NumToStr(versionInfo.major) \o <<".">>
        \o NumToStr(versionInfo.minor)

\* the object refTag named when the run started
RefTagTarget == GitRevParse(inputs.refTag, pre.local)

\* every git command of the run so far did what it was asked to
AllGitOk == \A i \in 1..Len(gitLog) : gitLog[i].ok /\ ~gitLog[i].fault

\* no command of the run so far was made to fail by the environment
NoFault == \A i \in 1..Len(gitLog) : ~gitLog[i].fault

OutputsNamed(name) == {o[2] : o \in {x \in outputs : x[1] = name}}

\* ------------------------------------------------------------------------
\* C1
\* ------------------------------------------------------------------------

\* C1: when tag parses, the prerelease gate does not trigger, refTag
\* resolves to an id C and every git command succeeds, the completed run
\* leaves the local and the remote tag prefix+major on C, with updateMinor
\* also the local and the remote tag prefix+major.minor, and the outputs
\* majorTag and (with updateMinor) minorTag carry exactly these names.
C1_FloatingTagsOnResolvedCommit ==
    (/\ Done
     /\ versionInfo.ok
     /\ ~(versionInfo.isPrerelease /\ inputs.ignorePrerelease)
     /\ RefTagTarget.exit = 0
     /\ Len(gitLog) > 0
     /\ AllGitOk)
    => /\ PointsAt(localTags, MajorName, RefTagTarget.out)
       /\ PointsAt(remoteTags, MajorName, RefTagTarget.out)
       /\ OutputsNamed("majorTag") = {MajorName}
       /\ inputs.updateMinor =>
             /\ PointsAt(localTags, MinorName, RefTagTarget.out)
             /\ PointsAt(remoteTags, MinorName, RefTagTarget.out)
             /\ OutputsNamed("minorTag") = {MinorName}

\* a completed run with updateMinor that moved a stale local major tag and
\* created the minor tag, all commands succeeding
C1_Witness ==
    /\ Done
    /\ Success
    /\ AllGitOk
    /\ inputs.updateMinor
    /\ inputs.tag = Tag_v123
    /\ TagState(pre.local, MajorName) = "c1"
    /\ TagState(pre.local, MinorName) = NoSha
    /\ PointsAt(remoteTags, MinorName, "t1")

\* ------------------------------------------------------------------------
\* C2
\* ------------------------------------------------------------------------

\* C2: when the parsed version of tag is a prerelease and ignorePrerelease
\* is true, no state of the run has a git command invoked, a tag changed
\* locally or remotely, or an output recorded, and the completed run has
\* reported a failure; whatever refTag, prefix, updateMinor and verbose are.
C2_PrereleaseGateTouchesNothing ==
    LET v == parseVersion(rawInputs.tag)
    IN  (/\ v.ok
         /\ v.isPrerelease
         /\ rawInputs.ignorePrerelease = "true")
        => /\ gitLog = <<>>
           /\ commitSha = NoSha
           /\ outputs = {}
           /\ localTags = pre.local
           /\ remoteTags = pre.remote
           /\ Done => Failure

\* the gate has ended a run whose refTag does not even resolve
C2_Witness ==
    /\ Done
    /\ failed = <<"Prerelease versions are ignored">>
    /\ versionInfo.isPrerelease
    /\ inputs.ignorePrerelease
    /\ inputs.refTag = Str_nope
    /\ inputs.updateMinor

\* ------------------------------------------------------------------------
\* C3
\* ------------------------------------------------------------------------

\* C3: whenever the floating tag already exists on the remote, on whatever
\* commit and whether or not the tag exists locally, its push is a forced
\* push and leaves the remote tag on the commit resolved from refTag; the
\* push does not fail because of what the tag pointed at.
C3_ExistingRemoteTagIsForcePushed ==
    \A i \in 1..Len(gitLog) :
        (/\ gitLog[i].op = "push"
         /\ gitLog[i].name \in DOMAIN pre.remote
         /\ NoFault)
        => /\ gitLog[i].force
           /\ gitLog[i].ok
           /\ PointsAt(remoteTags, gitLog[i].name, commitSha)

\* ------------------------------------------------------------------------
\* C4
\* ------------------------------------------------------------------------

\* C4: a createOrUpdateTag whose git command succeeds leaves the local tag
\* on commitId whatever it pointed at before, with updated = TRUE and
\* created = FALSE exactly when the tag existed locally before the call and
\* created = TRUE and updated = FALSE otherwise.
C4_CreateOrUpdateResult ==
    [][(pc = "tag" /\ pc' = "push")
        => /\ PointsAt(localTags', TagName, commitSha)
           /\ tagResult'.commitSha = commitSha
           /\ tagResult'.tagName = TagName
           /\ tagResult'.updated = (TagName \in DOMAIN localTags)
           /\ tagResult'.created = (TagName \notin DOMAIN localTags)
           /\ tagResult'.created # tagResult'.updated]_vars

\* createOrUpdateTag has just moved a tag off another commit
C4_Witness ==
    /\ pc = "push"
    /\ tagResult.updated
    /\ ~tagResult.created
    /\ TagState(pre.local, TagName) = "c1"
    /\ PointsAt(localTags, TagName, "c2")

\* ------------------------------------------------------------------------
\* C5
\* ------------------------------------------------------------------------

\* C5: a second run with the same inputs, right after a run that succeeded
\* and with the environment failing no command, succeeds; each of its
\* create-or-update steps reports updated = TRUE and created = FALSE for the
\* same tag as the first run, and every local and remote tag, and the
\* outputs, are what they were after the first run.
C5_SecondRunUpdatesInPlace ==
    (runNo > 1 /\ Done /\ NoFault)
    => /\ Success
       /\ Len(results) = Len(first.results)
       /\ \A i \in 1..Len(results) :
             /\ results[i].updated
             /\ ~results[i].created
             /\ results[i].tag = first.results[i].tag
       /\ localTags = first.local
       /\ remoteTags = first.remote
       /\ outputs = first.outputs

\* the second run has completed after a first run that created both tags
C5_Witness ==
    /\ runNo = 2
    /\ Done
    /\ Success
    /\ NoFault
    /\ Len(results) = 2
    /\ first.results[1].created
    /\ first.results[2].created
    /\ results[2].updated

\* ------------------------------------------------------------------------
\* C6
\* ------------------------------------------------------------------------

\* C6: with updateMinor false no state of the run has the tag
\* prefix+major.minor probed, created, moved, pushed or verified, its local
\* and remote state is the one the run started with, and no output minorTag
\* is recorded.
C6_MinorTagUntouched ==
    (rawInputs.updateMinor = "false")
    => /\ OutputsNamed("minorTag") = {}
       /\ versionInfo.ok =>
             /\ \A i \in 1..Len(gitLog) :
                   gitLog[i].op # "rev-parse" => gitLog[i].name # MinorName
             /\ TagState(localTags, MinorName) = TagState(pre.local, MinorName)
             /\ TagState(remoteTags, MinorName)
                    = TagState(pre.remote, MinorName)

\* a run without updateMinor has moved the major tag and succeeded while a
\* stale minor tag sits on the remote only
C6_Witness ==
    /\ Done
    /\ Success
    /\ ~inputs.updateMinor
    /\ PointsAt(localTags, MajorName, "c2")
    /\ TagState(pre.local, MajorName) = "c1"
    /\ TagState(localTags, MinorName) = NoSha
    /\ TagState(remoteTags, MinorName) = "c1"

\* ------------------------------------------------------------------------
\* C7
\* ------------------------------------------------------------------------

\* the run has invoked the git command op and it did not succeed
CommandFailed(op) ==
    \E i \in 1..Len(gitLog) : gitLog[i].op = op /\ ~gitLog[i].ok

\* C7: a completed run has exactly one outcome: either the summary is
\* reported and setFailed was never called, or setFailed was called, once,
\* and no summary is reported; a run in progress has reported neither. A
\* missing tag input, a parse failure, the prerelease gate, a failed
\* resolution of refTag, a failed git tag command and a failed push each
\* end the run in the failure outcome, with the message of that error.
C7_ExactlyOneOutcome ==
    /\ ~Done => (~summary /\ failed = <<>>)
    /\ Done => (Success \/ Failure)
    /\ Done => ~(Success /\ Failure)
    /\ Len(failed) <= 1
    /\ Done =>
          /\ rawInputs.tag = <<>>
                => failed = <<"Input required and not supplied: tag">>
          /\ (rawInputs.tag # <<>> /\ inputs.tag # <<>>
                   /\ ~parseVersion(rawInputs.tag).ok)
                => failed = <<"Invalid semantic version format">>
          /\ (versionInfo.ok /\ versionInfo.isPrerelease
                   /\ inputs.ignorePrerelease)
                => failed = <<"Prerelease versions are ignored">>
          /\ CommandFailed("rev-parse")
                => failed = <<"Failed to resolve commit SHA">>
          /\ CommandFailed("tag") => failed = <<"The process 'git' failed">>
          /\ CommandFailed("push") => failed = <<"Failed to push tag">>

\* a run has failed on the push of the minor tag, after the major tag went
\* through
C7_Witness ==
    /\ Done
    /\ Failure
    /\ failed = <<"Failed to push tag">>
    /\ phase = "minor"
    /\ OutputsNamed("majorTag") # {}

\* ------------------------------------------------------------------------
\* C8
\* ------------------------------------------------------------------------

\* C8: when the tag input is missing or empty, or parseVersion fails on it,
\* no state of the run has a git command invoked, a commit resolved, a tag
\* changed or an output recorded, and the completed run is a failure.
C8_BadTagTouchesNothing ==
    (rawInputs.tag = <<>> \/ ~parseVersion(rawInputs.tag).ok)
    => /\ gitLog = <<>>
       /\ commitSha = NoSha
       /\ outputs = {}
       /\ localTags = pre.local
       /\ remoteTags = pre.remote
       /\ Done => Failure

\* a run has failed on a tag that is no version
C8_Witness ==
    /\ Done
    /\ rawInputs.tag = Tag_v12
    /\ failed = <<"Invalid semantic version format">>
    /\ rawInputs.updateMinor = "true"

\* ------------------------------------------------------------------------
\* C9
\* ------------------------------------------------------------------------

\* the resolution of refTag was attempted and could not give an identifier:
\* the reference does not exist, git could not run, or what git printed is
\* not an identifier
ResolutionFails ==
    /\ Len(gitLog) > 0
    /\ gitLog[1].op = "rev-parse"
    /\ (gitLog[1].fault \/ RefTagTarget.exit # 0)

\* C9: when resolving refTag fails, no state of the run has a tag created,
\* moved or pushed or an output recorded: the local and the remote tags are
\* what they were before the run, no push is invoked, and the completed run
\* is a failure.
C9_FailedResolutionTouchesNothing ==
    ResolutionFails
    => /\ outputs = {}
       /\ localTags = pre.local
       /\ remoteTags = pre.remote
       /\ \A i \in 1..Len(gitLog) : gitLog[i].op # "push"
       /\ pc \notin {"push", "verify", "output", "summary"}
       /\ Done => Failure

\* a run has failed on what git printed for a reference that exists
C9_Witness ==
    /\ Done
    /\ failed = <<"Failed to resolve commit SHA">>
    /\ RefTagTarget.exit = 0
    /\ gitLog[1].fault
    /\ inputs.updateMinor
    /\ TagState(localTags, MajorName) = NoSha

\* ------------------------------------------------------------------------
\* C10
\* ------------------------------------------------------------------------

\* C10: the floating tags of a successful run are named from the version of
\* the tag input and sit on the object the refTag input names, the tag input
\* standing in for a refTag input that is absent or empty; and a run fails
\* with the parse error only when the tag input itself does not parse,
\* whatever refTag is.
C10_VersionFromTagCommitFromRefTag ==
    LET ref  == IF rawInputs.refTag = <<>> THEN rawInputs.tag
                ELSE rawInputs.refTag
        v    == parseVersion(rawInputs.tag)
        pfx  == IF rawInputs.prefix = <<>> THEN Str_v ELSE rawInputs.prefix
        name == pfx \o NumToStr(v.major)
    IN  /\ (Done /\ Success)
           => /\ v.ok
              /\ GitRevParse(ref, pre.local).exit = 0
              /\ PointsAt(localTags, name, GitRevParse(ref, pre.local).out)
              /\ PointsAt(remoteTags, name, GitRevParse(ref, pre.local).out)
              /\ commitSha = GitRevParse(ref, pre.local).out
        /\ failed = <<"Invalid semantic version format">> => ~v.ok

\* a successful run has put the tag named after v1.2.3 on the commit of HEAD
\* while v1.2.3 itself is on another object
C10_Witness ==
    /\ Done
    /\ Success
    /\ rawInputs.tag = Tag_v123
    /\ rawInputs.refTag = Str_HEAD
    /\ PointsAt(localTags, Tag_v123, "t1")
    /\ PointsAt(localTags, <<"v", "1">>, HeadCommit)
    /\ PointsAt(remoteTags, <<"v", "1">>, HeadCommit)
    /\ TagState(pre.remote, <<"v", "1">>) = NoSha

\* ------------------------------------------------------------------------
\* C11
\* ------------------------------------------------------------------------

\* the commands both runs of a pair issue, whatever verbose says
Common(log) == SelectSeq(log, LAMBDA e : e.op # "verify")

\* the environment treats the commands the two runs have in common alike
SameEnvironment ==
    LET a == Common(first.gitLog)
        b == Common(gitLog)
    IN  \A i \in 1..Len(a) : i <= Len(b) => a[i].outcome = b[i].outcome

\* the completed second run of a pair that differs in the given input
TwinDone(field) ==
    runNo = 2 /\ first.done /\ first.varied = field /\ Done

\* C11: two runs from the same repository state whose inputs differ only in
\* verbose, with the environment treating their common commands alike, end
\* with the same setFailed messages and the same summary flag, the same
\* outputs, and the same local and remote tags, whatever the verification
\* of the verbose run reports.
C11_VerboseChangesNothing ==
    (TwinDone("verbose") /\ SameEnvironment)
        => /\ failed = first.failed
           /\ summary = first.summary
           /\ outputs = first.outputs
           /\ localTags = first.local
           /\ remoteTags = first.remote

\* a silent run that succeeds with both tags and its verbose twin whose
\* verification of the major tag reports a mismatch
C11_Witness ==
    /\ TwinDone("verbose")
    /\ SameEnvironment
    /\ inputs.verbose
    /\ ~first.inputs.verbose
    /\ Success
    /\ Len(first.results) = 2
    /\ warnings # <<>>
    /\ \E i \in 1..Len(gitLog) :
          gitLog[i].op = "verify" /\ ~gitLog[i].ok /\ i < Len(gitLog)


\* ------------------------------------------------------------------------
\* C12
\* ------------------------------------------------------------------------

\* the tags a run moved or created
Changed(before, after) ==
    {n \in DOMAIN after : TagState(before, n) # after[n]}

\* what is left of the names once the prefix is taken off
Unprefixed(names, prefix) ==
    {IF StartsWith(n, prefix) THEN SubSeq(n, Len(prefix) + 1, Len(n))
     ELSE <<"?">> \o n : n \in names}

GateMessage == "Prerelease versions are ignored"

\* the floating tags of the release are, under the two prefixes, in the
\* same state when the runs start
SameStartUnderBothPrefixes ==
    versionInfo.ok =>
        \A suffix \in {NumToStr(versionInfo.major),
                        NumToStr(versionInfo.major) \o <<".">>
                            \o NumToStr(versionInfo.minor)} :
           /\ TagState(pre.local, inputs.prefix \o suffix)
                = TagState(pre.local, first.inputs.prefix \o suffix)
           /\ TagState(pre.remote, inputs.prefix \o suffix)
                = TagState(pre.remote, first.inputs.prefix \o suffix)

\* C12: of two runs that differ only in prefix, the second has, once past
\* parsing, the VersionInfo of the first (or none, when the first had none)
\* and, once past the gate, stopped at the gate exactly when the first did;
\* with the environment treating their commands alike and the floating
\* tags starting in the same state under both prefixes, the completed runs
\* have the same setFailed messages and summary flag, and the outputs and
\* the tags they moved differ from the first run's only in the prefix.
C12_PrefixNotParsed ==
    (runNo = 2 /\ first.done /\ first.varied = "prefix")
        => /\ pc \notin {"inputs", "parse"} => versionInfo = first.versionInfo
           /\ pc \notin {"inputs", "parse", "gate"} =>
                  (failed = <<GateMessage>>) = (first.failed = <<GateMessage>>)
           /\ (Done /\ SameEnvironment /\ SameStartUnderBothPrefixes) =>
                  /\ failed = first.failed
                  /\ summary = first.summary
                  /\ {o[1] : o \in outputs} = {o[1] : o \in first.outputs}
                  /\ \A name \in {"majorTag", "minorTag"} :
                        Unprefixed(OutputsNamed(name), inputs.prefix) =
                        Unprefixed({o[2] : o \in {x \in first.outputs :
                                                    x[1] = name}},
                                   first.inputs.prefix)
                  /\ Unprefixed(Changed(pre.local, localTags), inputs.prefix)
                       = Unprefixed(Changed(pre.local, first.local),
                                    first.inputs.prefix)
                  /\ Unprefixed(Changed(pre.remote, remoteTags),
                                inputs.prefix)
                       = Unprefixed(Changed(pre.remote, first.remote),
                                    first.inputs.prefix)

\* a run with the default prefix and its twin with prefix release-, both
\* moving the major and the minor tag of the same release
C12_Witness ==
    /\ TwinDone("prefix")
    /\ SameEnvironment
    /\ SameStartUnderBothPrefixes
    /\ Success
    /\ first.summary
    /\ first.inputs.prefix = Str_v
    /\ inputs.prefix = Str_release
    /\ versionInfo.ok
    /\ versionInfo = first.versionInfo
    /\ Len(results) = 2
    /\ outputs # first.outputs
    /\ Changed(pre.local, localTags) # Changed(pre.local, first.local)

\* a prerelease stopped at the gate under both prefixes
C12_WitnessGate ==
    /\ TwinDone("prefix")
    /\ versionInfo.ok
    /\ versionInfo.isPrerelease
    /\ failed = <<GateMessage>>
    /\ first.failed = <<GateMessage>>


\* ------------------------------------------------------------------------
\* C13
\* ------------------------------------------------------------------------

\* the function has been called and has returned
Returned(fn) == call.fn = fn /\ call.returned

Chars(s) == {s[i] : i \in 1..Len(s)}

\* the -prerelease part is absent, or non-empty and free of "+"
PreOfTheForm(c) ==
    c.pre = Undefined \/ (c.pre # <<>> /\ "+" \notin Chars(c.pre))

\* the +build part is absent, or non-empty
BuildOfTheForm(c) == c.build = Undefined \/ c.build # <<>>

\* the +build part is absent, or non-empty and within one line
BuildInOneLine(c) ==
    BuildOfTheForm(c) /\ Chars(c.build) \cap LineTerminators = {}

\* a sample major.minor.patch[-prerelease][+build] with nothing in front
VersionString(c) ==
    /\ c.lead = <<>>
    /\ c.damage = "none"
    /\ PreOfTheForm(c)
    /\ BuildInOneLine(c)

\* two parse results that are VersionInfos with the same fields, original
\* aside
SameVersion(a, b) ==
    /\ a.ok /\ b.ok
    /\ a.major = b.major /\ a.minor = b.minor /\ a.patch = b.patch
    /\ a.prerelease = b.prerelease /\ a.build = b.build
    /\ a.isPrerelease = b.isPrerelease

\* C13: for a version string s (major.minor.patch, optional -prerelease,
\* optional +build within one line) parseVersion of s, "v"+s, "refs/tags/"+s
\* and "refs/tags/v"+s all return a VersionInfo, with the same major, minor,
\* patch, prerelease, build and isPrerelease, and with original equal to
\* the text that was passed in; and for any text at all the four calls
\* fail together or return the same fields.
C13_LeadsAreCosmetic ==
    Returned("parseVersion") =>
        /\ VersionString(call.sample) =>
               \A l \in CosmeticLeads :
                  /\ SameVersion(call.variants[l], call.value)
                  /\ call.variants[l].original = l \o call.arg
        /\ \A l \in CosmeticLeads :
               /\ call.variants[l].ok = call.value.ok
               /\ call.value.ok =>
                      /\ SameVersion(call.variants[l], call.value)
                      /\ call.variants[l].original = l \o call.arg

\* a version string with two-digit major, prerelease and build, parsed
\* behind refs/tags/v
C13_Witness ==
    /\ Returned("parseVersion")
    /\ VersionString(call.sample)
    /\ call.sample.major = MaxNumber
    /\ call.sample.pre = <<"b", "-", "1", ".", "x">>
    /\ call.sample.build = <<"b", "+", "c", "-", "5">>
    /\ call.variants[RefsTagsPrefix \o Str_v].ok
    /\ call.variants[RefsTagsPrefix \o Str_v].major = MaxNumber
    /\ call.variants[RefsTagsPrefix \o Str_v].original # call.value.original


\* ------------------------------------------------------------------------
\* C14
\* ------------------------------------------------------------------------

\* a sample [v]M.m.p[-pre][+build]
TagOfTheForm(c) ==
    /\ c.lead \in {<<>>, Str_v}
    /\ c.damage = "none"
    /\ PreOfTheForm(c)
    /\ BuildOfTheForm(c)

\* the VersionInfo that carries the parts the sample was composed of
CarriesParts(v, c) ==
    /\ v.ok
    /\ v.major = c.major /\ v.minor = c.minor /\ v.patch = c.patch
    /\ v.prerelease = c.pre
    /\ v.build = c.build

\* isPrerelease says that the prerelease is present and non-empty
IsPrereleaseTellsPrerelease(v) ==
    v.isPrerelease = (v.prerelease # Undefined /\ v.prerelease # <<>>)

\* C14 as stated: every tag [v]M.m.p[-pre][+build] with pre non-empty and
\* free of "+" and build any non-empty string parses into major M, minor m,
\* patch p, prerelease pre (absent without the -pre part) and build build
\* (absent without the +build part); and every VersionInfo has isPrerelease
\* true exactly when its prerelease is present and non-empty.
C14_PartsAreReturned ==
    Returned("parseVersion") =>
        /\ TagOfTheForm(call.sample) => CarriesParts(call.value, call.sample)
        /\ call.value.ok => IsPrereleaseTellsPrerelease(call.value)

\* C14 amended: the same, for a build that is non-empty and holds no line
\* terminator.
C14_PartsAreReturnedWithinOneLine ==
    Returned("parseVersion") =>
        /\ (TagOfTheForm(call.sample) /\ BuildInOneLine(call.sample))
               => CarriesParts(call.value, call.sample)
        /\ call.value.ok => IsPrereleaseTellsPrerelease(call.value)

\* v<M>.<m>.<p>-b-1.x+b+c-5 with leading zeros, parsed into its parts, the
\* major number of two digits
C14_Witness ==
    /\ Returned("parseVersion")
    /\ TagOfTheForm(call.sample)
    /\ call.sample.lead = Str_v
    /\ call.sample.pad
    /\ call.sample.pre = <<"b", "-", "1", ".", "x">>
    /\ call.sample.build = <<"b", "+", "c", "-", "5">>
    /\ call.value.ok
    /\ call.value.major = MaxNumber
    /\ call.value.isPrerelease
    /\ call.value.build = <<"b", "+", "c", "-", "5">>

\* a tag with build metadata only is no prerelease
C14_WitnessBuildOnly ==
    /\ Returned("parseVersion")
    /\ TagOfTheForm(call.sample)
    /\ call.sample.pre = Undefined
    /\ call.value.ok
    /\ call.value.build = <<"b">>
    /\ ~call.value.isPrerelease


\* ------------------------------------------------------------------------
\* C15
\* ------------------------------------------------------------------------

\* s[i..j] is a non-empty run of digits
IsDigits(s, i, j) == i <= j /\ \A k \in i..j : s[k] \in DigitChars

\* from index k to the end s holds nothing, or -prerelease, or +build, or
\* -prerelease+build, with a non-empty prerelease free of "+" and a
\* non-empty build
OnlySuffixes(s, k) ==
    \/ k > Len(s)
    \/ s[k] = "+" /\ k < Len(s)
    \/ /\ s[k] = "-"
       /\ \E e \in (k + 1)..Len(s) :
             /\ \A j \in (k + 1)..e : s[j] # "+"
             /\ e = Len(s) \/ (s[e + 1] = "+" /\ e + 1 < Len(s))

\* somewhere in s a digit+.digit+.digit+ sequence is followed to the end
\* only by an optional -prerelease and an optional +build
HasVersionToTheEnd(s) ==
    \E i \in 1..Len(s) : \E a \in i..Len(s) :
       /\ IsDigits(s, i, a)
       /\ a < Len(s) /\ s[a + 1] = "."
       /\ \E b \in (a + 2)..Len(s) :
             /\ IsDigits(s, a + 2, b)
             /\ b < Len(s) /\ s[b + 1] = "."
             /\ \E c \in (b + 2)..Len(s) :
                   /\ IsDigits(s, b + 2, c)
                   /\ OnlySuffixes(s, c + 1)

\* C15: for a tag that holds no digit+.digit+.digit+ sequence followed to
\* the end only by an optional -prerelease and an optional +build,
\* parseVersion throws "Invalid semantic version format"; and whatever the
\* tag, parseVersion either throws that error and returns nothing or
\* returns a VersionInfo whose major, minor and patch are numbers.
C15_AllOrNothing ==
    Returned("parseVersion") =>
        /\ ~HasVersionToTheEnd(call.arg) => call.value = ParseError
        /\ IF call.value.ok
           THEN /\ call.value.major \in Nat
                /\ call.value.minor \in Nat
                /\ call.value.patch \in Nat
           ELSE call.value = ParseError

\* "1.2.3-" is rejected
C15_Witness ==
    /\ Returned("parseVersion")
    /\ call.arg = <<"1", ".", "2", ".", "3", "-">>
    /\ ~HasVersionToTheEnd(call.arg)
    /\ call.value = ParseError

\* "invalid", "v1.2" and "v1.2.x" are rejected
C15_WitnessExamples ==
    /\ Returned("parseVersion")
    /\ call.arg \in {<<"i", "n", "v", "a", "l", "i", "d">>, Tag_v12,
                      Tag_v12 \o <<".", "x">>}
    /\ call.value = ParseError


\* ------------------------------------------------------------------------
\* C16
\* ------------------------------------------------------------------------

\* ds is the decimal numeral of n: digits only, no leading zero, value n
IsNumeralOf(ds, n) ==
    /\ IsDigits(ds, 1, Len(ds))
    /\ Len(ds) > 1 => ds[1] # "0"
    /\ parseInt(ds) = n

\* C16: createTagName(prefix, major) is the prefix, unchanged, followed by
\* the decimal numeral of major; createTagName(prefix, major, minor) is the
\* prefix, unchanged, followed by the numeral of major, a dot and the
\* numeral of minor, also when minor is 0: createTagName("v", 0, 0) is
\* "v0.0".
C16_TagNameFormat ==
    Returned("createTagName") =>
        LET rest == SubSeq(call.value, Len(call.prefix) + 1, Len(call.value))
        IN  /\ StartsWith(call.value, call.prefix)
            /\ IF call.minor = NoMinor
               THEN IsNumeralOf(rest, call.major)
               ELSE \E d \in 1..Len(rest) :
                       /\ rest[d] = "."
                       /\ IsNumeralOf(SubSeq(rest, 1, d - 1), call.major)
                       /\ IsNumeralOf(SubSeq(rest, d + 1, Len(rest)),
                                      call.minor)
            /\ (call.prefix = Str_v /\ call.major = 0 /\ call.minor = 0)
                   => call.value = <<"v", "0", ".", "0">>
            /\ (call.prefix = Str_release /\ call.major = 1
                    /\ call.minor = 2)
                   => call.value = Str_release \o <<"1", ".", "2">>
            /\ (call.prefix = Str_v /\ call.major = 10
                    /\ call.minor = NoMinor)
                   => call.value = <<"v", "1", "0">>

\* createTagName("v", 0, 0) has returned "v0.0"
C16_Witness ==
    /\ Returned("createTagName")
    /\ call.prefix = Str_v
    /\ call.major = 0
    /\ call.minor = 0
    /\ call.value = <<"v", "0", ".", "0">>

\* a prefix that holds a digit and a dot is copied as it is
C16_WitnessOddPrefix ==
    /\ Returned("createTagName")
    /\ call.prefix = <<"1", ".">>
    /\ call.major = MaxNumber
    /\ call.minor = 10
    /\ call.value = <<"1", ".">> \o NumToStr(MaxNumber) \o <<".", "1", "0">>


\* ------------------------------------------------------------------------
\* C17
\* ------------------------------------------------------------------------

\* the indices of the pushes of the run so far
Pushes == {i \in 1..Len(gitLog) : gitLog[i].op = "push"}

\* C17: every push of a run comes right after the successful git tag
\* command of the same tag and is forced exactly when that command was the
\* update (git tag -f), which is exactly when the tag existed locally when
\* the run started; it is a plain push exactly when the tag was created.
C17_PushForcedIffLocalUpdate ==
    \A i \in Pushes :
       /\ i > 1
       /\ gitLog[i - 1].op = "tag"
       /\ gitLog[i - 1].name = gitLog[i].name
       /\ gitLog[i - 1].ok
       /\ gitLog[i].force = gitLog[i - 1].force
       /\ gitLog[i].force = (gitLog[i].name \in DOMAIN pre.local)

\* a run that pushed the major tag with force and the minor tag without
C17_Witness ==
    /\ Done
    /\ Success
    /\ \E i \in Pushes, j \in Pushes :
          /\ i < j
          /\ gitLog[i].name = MajorName
          /\ gitLog[i].force
          /\ gitLog[j].name = MinorName
          /\ ~gitLog[j].force
          /\ gitLog[i].ok /\ gitLog[j].ok
    /\ results = <<[tag |-> MajorName, created |-> FALSE, updated |-> TRUE],
                   [tag |-> MinorName, created |-> TRUE, updated |-> FALSE]>>


\* ------------------------------------------------------------------------
\* C18
\* ------------------------------------------------------------------------

\* command i of the run is the given command on the given tag
IsCmd(i, op, name) == gitLog[i].op = op /\ gitLog[i].name = name

\* the last step of a tag before the output is recorded: the push, or with
\* verbose the verification that follows it
ClosesTag(i, name) ==
    IF inputs.verbose
    THEN /\ IsCmd(i, "verify", name)
         /\ i > 1 /\ IsCmd(i - 1, "push", name) /\ gitLog[i - 1].ok
    ELSE IsCmd(i, "push", name) /\ gitLog[i].ok

\* C18: the commands of a run come in one order. The first is the
\* resolution of refTag, made only after the tag parsed and the gate let it
\* pass. A probe is the major tag's, right after the resolution, or the
\* minor tag's, with updateMinor, right after the major tag is closed
\* (pushed, and verified when verbose) and its output recorded; a git tag
\* command comes right after the probe of its tag, a push right after the
\* successful git tag command of its tag and with the local tag on the
\* resolved commit, a verification only with verbose and right after the
\* successful push of its tag. An output names a tag that is closed.
C18_StepsInOrder ==
    /\ gitLog # <<>> =>
           /\ versionInfo.ok
           /\ ~GateTriggers(versionInfo, inputs.ignorePrerelease)
           /\ gitLog[1].op = "rev-parse"
    /\ pc \in {"inputs", "parse", "gate", "resolve"} =>
           gitLog = <<>> /\ outputs = {}
    /\ \A i \in 2..Len(gitLog) :
          LET e == gitLog[i]
          IN  CASE e.op = "probe" ->
                       \/ /\ i = 2
                          /\ e.name = MajorName
                          /\ gitLog[1].ok
                       \/ /\ e.name = MinorName
                          /\ inputs.updateMinor
                          /\ ClosesTag(i - 1, MajorName)
                          /\ <<"majorTag", MajorName>> \in outputs
                [] e.op = "tag" -> IsCmd(i - 1, "probe", e.name)
                [] e.op = "push" ->
                       /\ IsCmd(i - 1, "tag", e.name)
                       /\ gitLog[i - 1].ok
                       /\ PointsAt(localTags, e.name, commitSha)
                [] e.op = "verify" ->
                       /\ inputs.verbose
                       /\ IsCmd(i - 1, "push", e.name)
                       /\ gitLog[i - 1].ok
                [] OTHER -> FALSE
    /\ \A o \in outputs :
          /\ o \in {<<"majorTag", MajorName>>, <<"minorTag", MinorName>>}
          /\ \E i \in 1..Len(gitLog) : ClosesTag(i, o[2])
    /\ \A o \in outputs :
          o[1] = "minorTag" => <<"majorTag", MajorName>> \in outputs

\* a completed verbose run over both tags: nine commands
C18_Witness ==
    /\ Done
    /\ Success
    /\ inputs.verbose
    /\ inputs.updateMinor
    /\ Len(gitLog) = 9
    /\ [i \in 1..9 |-> gitLog[i].op] =
           <<"rev-parse", "probe", "tag", "push", "verify",
             "probe", "tag", "push", "verify">>
    /\ outputs = {<<"majorTag", MajorName>>, <<"minorTag", MinorName>>}


\* ------------------------------------------------------------------------
\* C19
\* ------------------------------------------------------------------------

\* the probes of the run so far that git could not be invoked for
FailedProbes ==
    {i \in 1..Len(gitLog) : gitLog[i].op = "probe" /\ gitLog[i].fault}

\* C19: a probe for which git cannot be invoked surfaces as an error: it is
\* the last command of the run and the run fails; it is never answered with
\* false, so no git tag command of the create branch follows it. A probe
\* that git answers is followed by the create branch exactly when the tag
\* is absent.
C19_FailedProbeSurfaces ==
    /\ \A i \in FailedProbes :
          /\ i = Len(gitLog)
          /\ Done
          /\ Failure
    /\ \A i \in 2..Len(gitLog) :
          (gitLog[i].op = "tag" /\ ~gitLog[i - 1].fault) =>
              gitLog[i].force = (gitLog[i].name \in DOMAIN pre.local)

\* ------------------------------------------------------------------------
\* C20
\* ------------------------------------------------------------------------

\* git rev-parse printed something that is no object id
MalformedOutput ==
    /\ gitLog # <<>>
    /\ gitLog[1].op = "rev-parse"
    /\ gitLog[1].outcome \in {"badlen", "nothex"}

\* C20: the commit id run() works with is an object id, and when git
\* rev-parse prints anything else (the wrong number of characters, or
\* ShaLength characters that are no hexadecimal number) the resolution
\* fails: the run stops with the resolution error and no tag is probed,
\* created, moved or pushed.
C20_OnlyWellFormedIds ==
    /\ commitSha \in Ids \cup {NoSha}
    /\ MalformedOutput =>
           /\ Len(gitLog) = 1
           /\ Done
           /\ failed = <<ResolveError.error>>


\* ------------------------------------------------------------------------
\* C21
\* ------------------------------------------------------------------------

\* C21: the id getCommitSha returns for a ref that names an object is the
\* id of a commit, for an annotated tag the commit the tag object points
\* at, and the floating tags a run creates or moves point directly at a
\* commit.
C21_ResolvesToCommit ==
    /\ (commitSha \in Ids /\ RefTagTarget.exit = 0) =>
           /\ commitSha \in Commits
           /\ commitSha = Peel(RefTagTarget.out)
    /\ \A n \in Changed(pre.local, localTags) : localTags[n] \in Commits
    /\ \A n \in Changed(pre.remote, remoteTags) : remoteTags[n] \in Commits


\* ------------------------------------------------------------------------
\* C22
\* ------------------------------------------------------------------------

\* the names of the floating tags of the run
FloatingNames ==
    IF versionInfo.ok
    THEN {MajorName} \cup (IF inputs.updateMinor THEN {MinorName} ELSE {})
    ELSE {}

\* what a run did to a tag namespace stays within the floating tags
WithinFrame(before, after) ==
    /\ DOMAIN before \subseteq DOMAIN after
    /\ Changed(before, after) \subseteq FloatingNames

\* a step of getCommitSha, tagExists or verifyTag changes no tag
ReadOnlyStep ==
    pc \in {"resolve", "probe", "verify"} =>
        (localTags' = localTags /\ remoteTags' = remoteTags)

\* C22: at every point of a run the local and the remote tags differ from
\* those at its start at most in prefix+major and, with updateMinor, in
\* prefix+major.minor, and no tag has been deleted; and the steps that
\* resolve refTag, probe a tag and verify a tag leave every local and
\* remote tag as it is.
C22_OnlyFloatingTagsChange ==
    /\ [](WithinFrame(pre.local, localTags)
             /\ WithinFrame(pre.remote, remoteTags))
    /\ [][ReadOnlyStep]_vars

\* a completed verbose run that moved both floating tags, locally and on
\* the remote, with refTag naming another ref than the source tag
C22_Witness ==
    /\ Done
    /\ Success
    /\ inputs.verbose
    /\ inputs.refTag = Str_HEAD
    /\ Changed(pre.local, localTags) = {MajorName, MinorName}
    /\ Changed(pre.remote, remoteTags) = {MajorName, MinorName}
    /\ TagState(localTags, inputs.tag) = TagState(pre.local, inputs.tag)


\* ------------------------------------------------------------------------
\* C23
\* ------------------------------------------------------------------------

\* the verifications of the run so far that returned false
FailedVerifications ==
    {i \in 1..Len(gitLog) : gitLog[i].op = "verify" /\ ~gitLog[i].ok}

\* every command of the run so far that is no verification succeeded
AllButVerifyOk ==
    \A i \in 1..Len(gitLog) : gitLog[i].op # "verify" => gitLog[i].ok

\* C23: a verification is made only with verbose; one that returns false
\* (a mismatch, or the tag could not be resolved) leaves a warning and
\* never ends the run: the run goes on to record the output of the tag,
\* a run never fails right after a verification, and a completed run whose
\* other commands all succeeded ends in success with majorTag recorded
\* and, with updateMinor, the minor tag pushed and minorTag recorded.
C23_FailedVerificationOnlyWarns ==
    /\ \A i \in 1..Len(gitLog) : gitLog[i].op = "verify" => inputs.verbose
    /\ \A i \in FailedVerifications :
          /\ \E w \in 1..Len(warnings) : warnings[w] = gitLog[i].name
          /\ i = Len(gitLog) => pc \in {"output", "probe", "summary", "done"}
          /\ (i = Len(gitLog) /\ Done) => Success
          /\ (gitLog[i].name = MajorName /\ pc # "output") =>
                 <<"majorTag", MajorName>> \in outputs
          /\ (Done /\ AllButVerifyOk) =>
                 /\ Success
                 /\ <<"majorTag", MajorName>> \in outputs
                 /\ inputs.updateMinor =>
                        /\ <<"minorTag", MinorName>> \in outputs
                        /\ \E j \in Pushes :
                              gitLog[j].name = MinorName /\ gitLog[j].ok
                        /\ PointsAt(remoteTags, MinorName, commitSha)

\* a successful run over both tags whose verification of the major tag
\* returned false
C23_Witness ==
    /\ Done
    /\ Success
    /\ inputs.updateMinor
    /\ \E i \in FailedVerifications :
          /\ gitLog[i].name = MajorName
          /\ \E j \in Pushes :
                j > i /\ gitLog[j].name = MinorName /\ gitLog[j].ok
    /\ warnings # <<>>
    /\ outputs = {<<"majorTag", MajorName>>, <<"minorTag", MinorName>>}


\* ------------------------------------------------------------------------
\* C24
\* ------------------------------------------------------------------------

\* the pushes of the run so far that failed
FailedPushes == {i \in Pushes : ~gitLog[i].ok}

\* the probes, git tag commands, pushes and verifications of a tag
StepsOf(name) ==
    {i \in 1..Len(gitLog) :
        gitLog[i].op \in {"probe", "tag", "push", "verify"}
            /\ gitLog[i].name = name}

\* C24: a run pushes each floating tag at most once, and a push that fails
\* is its last command: the run is over and has failed with the push
\* error. When it was the push of the major tag, no output is recorded and
\* the minor tag has not been probed, created, moved or pushed; when it was
\* the push of the minor tag, minorTag is not recorded.
C24_PushFailureIsFatal ==
    /\ \A i \in Pushes, j \in Pushes :
          gitLog[i].name = gitLog[j].name => i = j
    /\ \A i \in FailedPushes :
          /\ i = Len(gitLog)
          /\ Done
          /\ Failure
          /\ failed = <<"Failed to push tag">>
          /\ gitLog[i].name = MajorName =>
                 /\ outputs = {}
                 /\ StepsOf(MinorName) = {}
                 /\ TagState(localTags, MinorName)
                      = TagState(pre.local, MinorName)
                 /\ TagState(remoteTags, MinorName)
                      = TagState(pre.remote, MinorName)
          /\ gitLog[i].name = MinorName =>
                 OutputsNamed("minorTag") = {}

\* a run with updateMinor that ended with the failed push of the major tag
C24_Witness ==
    /\ Done
    /\ inputs.updateMinor
    /\ \E i \in FailedPushes : gitLog[i].name = MajorName
    /\ Failure
    /\ outputs = {}

\* a run that ended with the failed push of the minor tag
C24_WitnessMinor ==
    /\ Done
    /\ \E i \in FailedPushes : gitLog[i].name = MinorName
    /\ Failure
    /\ outputs = {<<"majorTag", MajorName>>}


\* ------------------------------------------------------------------------
\* C25
\* ------------------------------------------------------------------------

\* the parse result and a match of a pattern select the same text
SameSelection(v, m) ==
    /\ v.ok = m.ok
    /\ m.ok =>
           /\ v.major = parseInt(m.g1)
           /\ v.minor = parseInt(m.g2)
           /\ v.patch = parseInt(m.g3)
           /\ v.prerelease = m.g4
           /\ v.build = m.g5

\* what the permissive pattern alone finds in the tag name parseVersion
\* matches against
PermissiveAlone(tag) == PermissiveMatch(StripV(StripRefsTags(tag)))

\* the sample tags that hold more than one numeric triple
SeveralTriples ==
    {c \in Samples : c.lead \in VersionLeads /\ c.damage = "none"}

\* C25 as stated: for some tag with more than one numeric triple, the two
\* passes in their order select another major, minor, patch, prerelease or
\* build than the permissive pattern alone.
C25_OrderIsObservable ==
    Returned("parseVersion") =>
        \E c \in SeveralTriples :
           ~SameSelection(parseVersion(Compose(c)),
                          PermissiveAlone(Compose(c)))

\* C25 amended: for every tag, with one numeric triple, several or none,
\* the two passes in their order select exactly what the permissive
\* pattern alone selects, and fail exactly when it fails.
C25_OrderNotObservable ==
    Returned("parseVersion") =>
        SameSelection(call.value, PermissiveAlone(call.arg))

\* 7.8.9-<M>.<m>.<p>+b: the strict pattern matches, and the permissive
\* pattern alone selects the same first triple with the second as its
\* prerelease
C25_Witness ==
    /\ Returned("parseVersion")
    /\ call.sample \in SeveralTriples
    /\ call.sample.lead = <<"7", ".", "8", ".", "9", "-">>
    /\ call.sample.pre = Undefined
    /\ call.sample.build = <<"b">>
    /\ StrictMatch(call.arg).ok
    /\ call.value.ok
    /\ call.value.major = 7
    /\ call.value.prerelease =
           Decimal(call.sample.major, call.sample.pad) \o <<".">>
               \o Decimal(call.sample.minor, call.sample.pad) \o <<".">>
               \o Decimal(call.sample.patch, call.sample.pad)
    /\ PermissiveAlone(call.arg).g1 = <<"7">>


\* ------------------------------------------------------------------------
\* C26
\* ------------------------------------------------------------------------

\* the tag name the patterns are matched against
MatchedName(tag) == StripV(StripRefsTags(tag))

\* the index of the first "+" of s at or after k (Len(s) + 1 without one)
FirstPlus(s, k) ==
    LET ps == {j \in k..Len(s) : s[j] = "+"}
    IN  IF ps = {} THEN Len(s) + 1 ELSE CHOOSE j \in ps : \A q \in ps : j <= q

\* the -prerelease written in s from index k on (Undefined without one)
PreFrom(s, k) ==
    IF k <= Len(s) /\ s[k] = "-"
    THEN SubSeq(s, k + 1, FirstPlus(s, k) - 1)
    ELSE Undefined

\* the +build written in s from index k on (Undefined without one)
BuildFrom(s, k) ==
    IF FirstPlus(s, k) <= Len(s)
    THEN SubSeq(s, FirstPlus(s, k) + 1, Len(s))
    ELSE Undefined

\* from index k to the end s holds only an optional -prerelease (non-empty,
\* no "+" inside) and an optional +build (non-empty, within one line)
SuffixesReachEnd(s, k) ==
    /\ k <= Len(s) => s[k] \in {"-", "+"}
    /\ PreFrom(s, k) # <<>>
    /\ BuildFrom(s, k) # <<>>
    /\ BuildFrom(s, k) # Undefined
           => Chars(BuildFrom(s, k)) \cap LineTerminators = {}

\* digit+.digit+.digit+ is written in s as s[i..a].s[a+2..b].s[b+2..c] and
\* what follows it reaches the end of s
VersionFrom(s, i, a, b, c) ==
    /\ IsDigits(s, i, a)
    /\ a < Len(s) /\ s[a + 1] = "."
    /\ IsDigits(s, a + 2, b)
    /\ b < Len(s) /\ s[b + 1] = "."
    /\ IsDigits(s, b + 2, c)
    /\ SuffixesReachEnd(s, c + 1)

\* the positions of s at which such a sequence starts
VersionPositions(s) ==
    {i \in 1..Len(s) :
        \E a \in i..Len(s) :
           /\ IsDigits(s, i, a)
           /\ a < Len(s) /\ s[a + 1] = "."
           /\ \E b \in (a + 2)..Len(s) :
                 /\ IsDigits(s, a + 2, b)
                 /\ b < Len(s) /\ s[b + 1] = "."
                 /\ \E c \in (b + 2)..Len(s) : VersionFrom(s, i, a, b, c)}

\* v is the VersionInfo of the sequence that starts at index i of s
ReadsVersionAt(v, s, i) ==
    \E a \in i..Len(s) :
       /\ IsDigits(s, i, a)
       /\ a < Len(s) /\ s[a + 1] = "."
       /\ \E b \in (a + 2)..Len(s) :
             /\ IsDigits(s, a + 2, b)
             /\ b < Len(s) /\ s[b + 1] = "."
             /\ \E c \in (b + 2)..Len(s) :
                   /\ VersionFrom(s, i, a, b, c)
                   /\ v.ok
                   /\ v.major = parseInt(SubSeq(s, i, a))
                   /\ v.minor = parseInt(SubSeq(s, a + 2, b))
                   /\ v.patch = parseInt(SubSeq(s, b + 2, c))
                   /\ v.prerelease = PreFrom(s, c + 1)
                   /\ v.build = BuildFrom(s, c + 1)

\* a sample tag <digit-free custom prefix>M.m.p
CustomPrefixed(c) ==
    /\ c.lead = Str_release
    /\ c.damage = "none"
    /\ c.pre = Undefined
    /\ c.build = Undefined

\* a sample tag that goes on after the "-" of its first numeric triple 7.8.9
\* and holds no "+"
GoesOnAfterFirstTriple(c) ==
    /\ c.lead \in VersionLeads
    /\ c.build = Undefined

\* the text of a sample tag after its lead
AfterLead(c) == SubSeq(Compose(c), Len(c.lead) + 1, Len(Compose(c)))

C26_WitnessCustomPrefix ==
    /\ Returned("parseVersion")
    /\ CustomPrefixed(call.sample)
    /\ ~StrictMatch(MatchedName(call.arg)).ok
    /\ call.value.ok
    /\ call.value.major = MaxNumber
    /\ ~call.value.isPrerelease


\* ------------------------------------------------------------------------
\* C27
\* ------------------------------------------------------------------------

\* the git tag commands this instance ran with the environment letting
\* every command so far run as asked
UnhinderedTagCommands ==
    {i \in 1..Len(gitLog) :
        /\ gitLog[i].op = "tag"
        /\ \A j \in 1..i : ~gitLog[j].fault}

\* the other instance created the tag right after this instance's probe of
\* it, which is the last command but one
CreatedBehindTheProbe(name) ==
    \E w \in 1..Len(otherWrites) :
       /\ otherWrites[w].name = name
       /\ otherWrites[w].created
       /\ otherWrites[w].after = Len(gitLog) - 1
       /\ IsCmd(Len(gitLog) - 1, "probe", name)

\* C27 as stated: no git tag command of this instance fails because of what
\* the other instance wrote, and when the other instance created the tag
\* between this instance's probe and its git tag command, that command
\* succeeds and leaves the local tag on this instance's commit.
C27_OverwriteWinsTheRace ==
    /\ \A i \in UnhinderedTagCommands : gitLog[i].ok
    /\ \A i \in UnhinderedTagCommands :
          (i = Len(gitLog) /\ CreatedBehindTheProbe(gitLog[i].name))
              => /\ pc = "push"
                 /\ PointsAt(localTags, gitLog[i].name, commitSha)


\* ------------------------------------------------------------------------
\* C28
\* ------------------------------------------------------------------------

\* the run ended with the failed push of the tag name
EndedWithFailedPush(name) ==
    /\ Done
    /\ gitLog # <<>>
    /\ Len(gitLog) \in FailedPushes
    /\ gitLog[Len(gitLog)].name = name

\* C28: when the push of a floating tag fails the run reports failure, the
\* local tag of that name stays on the resolved commit it was created on or
\* moved to, and the remote tag of that name stays as it was when the run
\* started; when the tag is the minor tag, the major tag is on the resolved
\* commit locally and on the remote and output majorTag is recorded.
C28_NoRollback ==
    \A name \in FloatingNames :
       EndedWithFailedPush(name) =>
           /\ Failure
           /\ PointsAt(localTags, name, commitSha)
           /\ TagState(remoteTags, name) = TagState(pre.remote, name)
           /\ phase = "minor" =>
                  /\ name = MinorName
                  /\ PointsAt(localTags, MajorName, commitSha)
                  /\ PointsAt(remoteTags, MajorName, commitSha)
                  /\ <<"majorTag", MajorName>> \in outputs
                  /\ OutputsNamed("minorTag") = {}

\* the remote rejected the push of the major tag, which had been absent
\* locally: the run leaves it created locally, on another commit than the
\* remote one
C28_Witness ==
    /\ EndedWithFailedPush(MajorName)
    /\ ~gitLog[Len(gitLog)].fault
    /\ phase = "major"
    /\ MajorName \notin DOMAIN pre.local
    /\ PointsAt(localTags, MajorName, commitSha)
    /\ MajorName \in DOMAIN remoteTags
    /\ remoteTags[MajorName] # localTags[MajorName]

\* the push of the minor tag failed after the major tag had been moved and
\* pushed
C28_WitnessMinor ==
    /\ EndedWithFailedPush(MinorName)
    /\ phase = "minor"
    /\ Failure
    /\ Changed(pre.remote, remoteTags) = {MajorName}
    /\ TagState(localTags, MinorName) # TagState(remoteTags, MinorName)
    /\ outputs = {<<"majorTag", MajorName>>}


\* ------------------------------------------------------------------------
\* C29
\* ------------------------------------------------------------------------

\* the resolutions of refTag among the commands of the run
Resolutions == {i \in 1..Len(gitLog) : gitLog[i].op = "rev-parse"}

\* the resolved commit id, once there, is the same for the rest of the run
ResolvedIdIsKept ==
    (commitSha # NoSha /\ pc # "done") => commitSha' = commitSha

\* C29: a run that invokes git resolves refTag as its first command and
\* never again, so before any tag is created or moved; the id it got stays
\* the same for the rest of the run; and after a successful run with
\* updateMinor=true the major and the minor tag are both, locally and on
\* the remote, on that id, which is what refTag named when the run started,
\* also when refTag names a floating tag of the run.
C29_ResolvedOnceForBothTags ==
    /\ [](/\ gitLog # <<>> => Resolutions = {1}
          /\ (gitLog # <<>> /\ gitLog[1].ok) =>
                 /\ gitLog[1].name = inputs.refTag
                 /\ gitLog[1].fault \/ commitSha = RefTagTarget.out
          /\ (Done /\ Success /\ inputs.updateMinor) =>
                 /\ commitSha = RefTagTarget.out
                 /\ \A tags \in {localTags, remoteTags} :
                       /\ PointsAt(tags, MajorName, commitSha)
                       /\ PointsAt(tags, MinorName, commitSha))
    /\ [][ResolvedIdIsKept]_vars

\* a successful run with updateMinor=true whose refTag names its own major
\* tag: the remote major tag is moved and the minor tag created, both on
\* the commit the major tag was on
C29_Witness ==
    /\ Done /\ Success /\ inputs.updateMinor
    /\ inputs.refTag = MajorName
    /\ Resolutions = {1}
    /\ Len(gitLog) > 4
    /\ MajorName \in Changed(pre.remote, remoteTags)
    /\ MinorName \in Changed(pre.local, localTags)
    /\ PointsAt(localTags, MajorName, commitSha)
    /\ PointsAt(remoteTags, MinorName, commitSha)

\* a successful run with updateMinor=true and refTag on another commit than
\* the one both tags were on
C29_WitnessOtherCommit ==
    /\ Done /\ Success /\ inputs.updateMinor
    /\ inputs.refTag = Str_HEAD
    /\ Changed(pre.local, localTags) = {MajorName, MinorName}
    /\ Changed(pre.remote, remoteTags) = {MajorName, MinorName}
    /\ PointsAt(localTags, MajorName, commitSha)
    /\ PointsAt(localTags, MinorName, commitSha)


\* ------------------------------------------------------------------------
\* C30
\* ------------------------------------------------------------------------

\* C30: for every tag, parseVersion returns a VersionInfo exactly when the
\* end-anchored permissive pattern matches the tag as it was passed in, and
\* the VersionInfo has the major, minor, patch, prerelease and build of that
\* match; the same holds of the tag behind "v", "refs/tags/" and
\* "refs/tags/v".
C30_PermissiveOnRawTagDecides ==
    Returned("parseVersion") =>
        /\ SameSelection(call.value, PermissiveMatch(call.arg))
        /\ \A l \in CosmeticLeads :
              SameSelection(call.variants[l], PermissiveMatch(l \o call.arg))

\* refs/tags/v<M>.<m>.<p>-rc+b: both strippings apply and the strict
\* pattern matches what is left, and the permissive pattern finds the same
\* parts in the tag as passed in
C30_Witness ==
    /\ Returned("parseVersion")
    /\ call.sample.lead = RefsTagsPrefix \o Str_v
    /\ call.sample.damage = "none"
    /\ call.sample.major >= 10
    /\ call.sample.pre = <<"r", "c">>
    /\ call.sample.build = <<"b">>
    /\ MatchedName(call.arg) = AfterLead(call.sample)
    /\ ~StrictMatch(call.arg).ok
    /\ StrictMatch(MatchedName(call.arg)).ok
    /\ call.value.ok
    /\ call.value.major = call.sample.major
    /\ PermissiveMatch(call.arg).ok
    /\ parseInt(PermissiveMatch(call.arg).g1) = call.sample.major

\* vv<M>.<m>: neither parseVersion nor the permissive pattern on the tag as
\* passed in finds a version
C30_WitnessFailure ==
    /\ Returned("parseVersion")
    /\ call.sample.lead = <<"v", "v">>
    /\ call.sample.damage = "no-patch"
    /\ call.value = ParseError
    /\ ~PermissiveMatch(call.arg).ok


====
